---- MODULE Spec2Model ----
(***************************************************************************)
(* Model of the XAUUSD signal bot: the strategy engine, the signal          *)
(* aggregator (Enhanced1000CandleSignalGenerator), the price cache of the   *)
(* data manager with its update thread, and the weight map handling of the  *)
(* signal generator, the optimizer and the configuration object.            *)
(*                                                                          *)
(* Floating point numbers are modelled as exact rationals <<n, d>>, d > 0,  *)
(* kept in lowest terms.                                                    *)
(***************************************************************************)
EXTENDS Integers, Sequences, FiniteSets, TLC

(***************************************************************************)
(* Rational arithmetic                                                      *)
(***************************************************************************)
RECURSIVE GCD(_, _)
GCD(a, b) == IF b = 0 THEN a ELSE GCD(b, a % b)

Abs(x) == IF x < 0 THEN -x ELSE x

Rat(n, d) ==
    IF n = 0 THEN <<0, 1>>
    ELSE LET g == GCD(Abs(n), d) IN <<n \div g, d \div g>>

RInt(k) == <<k, 1>>
\* operands are in lowest terms with a positive denominator; common factors
\* are taken out before multiplying, which keeps the products small
RAdd(a, b) ==
    LET g == GCD(a[2], b[2])
    IN Rat(a[1] * (b[2] \div g) + b[1] * (a[2] \div g), (a[2] \div g) * b[2])
RMul(a, b) ==
    LET g1 == GCD(Abs(a[1]), b[2])
        g2 == GCD(Abs(b[1]), a[2])
    IN IF a[1] = 0 \/ b[1] = 0 THEN <<0, 1>>
       ELSE <<(a[1] \div g1) * (b[1] \div g2), (a[2] \div g2) * (b[2] \div g1)>>
RDiv(a, b) == RMul(a, <<b[2], b[1]>>)      \* b > 0 only
RLt(a, b) ==
    LET g == GCD(a[2], b[2]) IN a[1] * (b[2] \div g) < b[1] * (a[2] \div g)
RLe(a, b) ==
    LET g == GCD(a[2], b[2]) IN a[1] * (b[2] \div g) <= b[1] * (a[2] \div g)
RGt(a, b) == RLt(b, a)
RGe(a, b) == RLe(b, a)
RMin(a, b) == IF RLe(a, b) THEN a ELSE b
RMax(a, b) == IF RGe(a, b) THEN a ELSE b

\* Python None
None == [none |-> TRUE]

(***************************************************************************)
(* config.py                                                                *)
(***************************************************************************)
MIN_SIGNAL_SCORE == 25

TIMEFRAMES == <<"15", "30", "60">>

PRIMARY_SYMBOL == "XAUUSD"

\* the configured default Weight Map, in hundredths
STRATEGY_WEIGHTS ==
    [s \in {"smc", "support_resistance", "price_action", "bollinger",
            "patterns", "candlesticks", "fvg", "volume"} |->
        CASE s = "smc"                -> Rat(30, 100)
          [] s = "support_resistance" -> Rat(20, 100)
          [] s = "price_action"       -> Rat(15, 100)
          [] s = "bollinger"          -> Rat(15, 100)
          [] s = "patterns"           -> Rat(10, 100)
          [] s = "candlesticks"       -> Rat(5, 100)
          [] s = "fvg"                -> Rat(3, 100)
          [] s = "volume"             -> Rat(2, 100)]

RECURSIVE SumWeights(_, _)
SumWeights(w, keys) ==
    IF keys = {} THEN RInt(0)
    ELSE LET k == CHOOSE x \in keys : TRUE
         IN RAdd(w[k], SumWeights(w, keys \ {k}))

\* sum(weights.values())
WeightTotal(w) == SumWeights(w, DOMAIN w)

(***************************************************************************)
(* trading/strategies.py                                                    *)
(***************************************************************************)
\* self.strategies, in insertion (= evaluation) order
StrategyNames ==
    <<"bollinger", "volume", "price_action", "smc", "patterns",
      "candlesticks", "fvg", "support_resistance", "trend_momentum",
      "market_structure">>

Strategies == {StrategyNames[i] : i \in 1..Len(StrategyNames)}

Opinion(d, s, r) == [direction |-> d, score |-> s, reason |-> r]

\* an opinion whose direction is outside the three directions
ErrorOpinion(r) == Opinion("ERROR", 0, r)

Neutral(r) == Opinion("NEUTRAL", 0, r)

\* marker of an exception leaving a strategy function
Raised == [raised |-> TRUE]


(***************************************************************************)
(* A candle window (pandas DataFrame) is described by the facts the code    *)
(* branches on:                                                             *)
(*   len   number of bars                                                   *)
(*   cols  the OHLC columns are present (FALSE: a malformed frame)          *)
(*   vol   a volume column is present and its sum is not 0                  *)
(*   bb    Bollinger facts: squeeze (width percentile <= 10), pos (class of *)
(*         bb_position), lng (close near the long-term lower/upper band)    *)
(*   srs   the first grouped S/R level within 0.2% of the close, or None    *)
(***************************************************************************)
BBPositions == {"le10", "lt40", "mid", "gt60", "ge90"}

BBFacts == [squeeze : BOOLEAN, pos : BBPositions, lng : {"lower", "upper", "none"}]

\* representative touch counts: below 3, 3, and 4 or more
TouchCounts == {1, 3, 4}

SRFacts ==
    {None} \cup [type : {"support", "resistance"},
                 strength : {"minor", "intermediate", "major"},
                 touches : TouchCounts]

\* a missing helper method: the attribute lookup raises AttributeError
MissingHelper == Raised

enhanced_bollinger_strategy(w) ==
    IF ~w.cols THEN Neutral("Enhanced BB error")
    ELSE IF w.len < 20 THEN Neutral("BB calculation failed")
    ELSE IF w.len >= 100 /\ w.bb.squeeze /\ w.bb.pos \in {"gt60", "ge90"}
        THEN Opinion("BUY", 85, "Extreme squeeze breakout bullish")
    ELSE IF w.len >= 100 /\ w.bb.squeeze /\ w.bb.pos \in {"le10", "lt40"}
        THEN Opinion("SELL", 85, "Extreme squeeze breakout bearish")
    ELSE IF w.len >= 200 /\ w.bb.lng = "lower"
        THEN Opinion("BUY", 75, "Long-term BB oversold bounce")
    ELSE IF w.len >= 200 /\ w.bb.lng = "upper"
        THEN Opinion("SELL", 75, "Long-term BB overbought rejection")
    ELSE IF w.bb.pos = "le10"
        THEN Opinion("BUY", 70, "BB lower band bounce")
    ELSE IF w.bb.pos = "ge90"
        THEN Opinion("SELL", 70, "BB upper band rejection")
    ELSE Neutral("No enhanced BB signal")

Min(a, b) == IF a <= b THEN a ELSE b

enhanced_support_resistance_strategy(w) ==
    IF ~w.cols THEN Neutral("Enhanced S/R error")
    ELSE IF w.len < 100 THEN Neutral("Insufficient data for enhanced S/R")
    ELSE IF w.srs = None THEN Neutral("No major S/R interaction")
    ELSE LET base == 50
                 + (CASE w.srs.strength = "major"        -> 30
                      [] w.srs.strength = "intermediate" -> 20
                      [] OTHER                           -> 0)
                 + (IF w.srs.touches >= 4 THEN 15
                    ELSE IF w.srs.touches >= 3 THEN 10 ELSE 0)
         IN IF w.srs.type = "support"
            THEN Opinion("BUY", Min(base, 90), "S/R support")
            ELSE Opinion("SELL", Min(base, 90), "S/R resistance")

\* _find_enhanced_order_blocks is not defined: every window of 200+ bars
\* ends in the except branch
enhanced_smc_strategy(w) ==
    IF ~w.cols THEN Neutral("Enhanced SMC error")
    ELSE IF w.len < 200 THEN Neutral("Insufficient data for enhanced SMC")
    ELSE IF MissingHelper = Raised THEN Neutral("Enhanced SMC error")
    ELSE Neutral("No enhanced SMC setup")

\* _analyze_multi_period_breakouts is not defined
enhanced_price_action_strategy(w) ==
    IF ~w.cols THEN Neutral("Enhanced PA error")
    ELSE IF w.len < 100 THEN Neutral("Insufficient data for enhanced PA")
    ELSE IF MissingHelper = Raised THEN Neutral("Enhanced PA error")
    ELSE Neutral("No enhanced PA breakout")

\* _analyze_volume_profile is not defined
enhanced_volume_strategy(w) ==
    IF ~w.vol THEN Neutral("No volume data")
    ELSE IF MissingHelper = Raised THEN Neutral("Enhanced volume error")
    ELSE Neutral("No enhanced volume signal")

\* _detect_major_chart_patterns is not defined
enhanced_pattern_strategy(w) ==
    IF w.len < 200 THEN Neutral("Insufficient data for enhanced patterns")
    ELSE IF MissingHelper = Raised THEN Neutral("Enhanced pattern error")
    ELSE Neutral("No enhanced pattern detected")

\* _get_trend_context is not defined
enhanced_candlestick_strategy(w) ==
    IF w.len < 10 THEN Neutral("Need more candles for enhanced analysis")
    ELSE IF MissingHelper = Raised THEN Neutral("Enhanced candlestick error")
    ELSE Neutral("No enhanced candlestick pattern")

\* _detect_enhanced_fvgs is not defined
enhanced_fvg_strategy(w) ==
    IF w.len < 50 THEN Neutral("Need more candles for enhanced FVG")
    ELSE IF ~w.cols \/ MissingHelper = Raised THEN Neutral("Enhanced FVG error")
    ELSE Neutral("No enhanced FVG interaction")

\* _calculate_multi_tf_momentum is not defined
trend_momentum_strategy(w) ==
    IF w.len < 100 THEN Neutral("Need 100+ candles for trend momentum")
    ELSE IF MissingHelper = Raised THEN Neutral("Momentum error")
    ELSE Neutral("No momentum alignment")

\* _analyze_market_structure_detailed is not defined
market_structure_strategy(w) ==
    IF w.len < 200 THEN Neutral("Need 200+ candles for structure analysis")
    ELSE IF MissingHelper = Raised THEN Neutral("Structure error")
    ELSE Neutral("Unclear market structure")

\* the registry self.strategies: name -> bound method
RunStrategy(name, w) ==
    CASE name = "bollinger"          -> enhanced_bollinger_strategy(w)
      [] name = "volume"             -> enhanced_volume_strategy(w)
      [] name = "price_action"       -> enhanced_price_action_strategy(w)
      [] name = "smc"                -> enhanced_smc_strategy(w)
      [] name = "patterns"           -> enhanced_pattern_strategy(w)
      [] name = "candlesticks"       -> enhanced_candlestick_strategy(w)
      [] name = "fvg"                -> enhanced_fvg_strategy(w)
      [] name = "support_resistance" -> enhanced_support_resistance_strategy(w)
      [] name = "trend_momentum"     -> trend_momentum_strategy(w)
      [] name = "market_structure"   -> market_structure_strategy(w)

\* StrategyEngine.analyze: one entry per registered strategy; an exception
\* leaving a strategy becomes a NEUTRAL, score-0 opinion
analyze(w) ==
    [name \in Strategies |->
        LET signal == RunStrategy(name, w)
        IN IF signal = Raised THEN Neutral("Error") ELSE signal]


(***************************************************************************)
(* trading/signal_generator.py: the deep-analysis layers                    *)
(***************************************************************************)
\* a level of find_major_levels lying within 0.2% of the close
LevelKinds == [type : {"support", "resistance"},
               strength : {"minor", "intermediate", "major"}]

\* _analyze_sr_interaction over the levels near the price, in list order:
\* the first major or intermediate one decides, minor ones are passed over
RECURSIVE analyze_sr_interaction(_)
analyze_sr_interaction(sr_levels) ==
    IF sr_levels = <<>> THEN [direction |-> "NEUTRAL", score |-> 0]
    ELSE LET level == Head(sr_levels)
         IN IF level.strength \in {"major", "intermediate"}
            THEN [direction |-> IF level.type = "support" THEN "BUY" ELSE "SELL",
                  score |-> IF level.strength = "major" THEN 25 ELSE 15]
            ELSE analyze_sr_interaction(Tail(sr_levels))

\* EnhancedPatternDetector: confidence in tenths
TrianglePattern ==
    [name |-> "Symmetrical Triangle", direction |-> "BUY", confidence |-> 7, score |-> 20]

ChannelPattern(slope, conf) ==
    [name |-> IF slope = "up" THEN "Ascending Channel" ELSE "Descending Channel",
     direction |-> IF slope = "up" THEN "BUY" ELSE "SELL",
     confidence |-> conf, score |-> 18]

HeadShouldersPattern ==
    [name |-> "Head and Shoulders", direction |-> "SELL", confidence |-> 6, score |-> 22]

\* facts: triangle, hs: detected or not; channel: None or [slope, conf]
detect_major_patterns(f) ==
    (IF f.triangle THEN <<TrianglePattern>> ELSE <<>>)
    \o (IF f.channel = None THEN <<>>
        ELSE <<ChannelPattern(f.channel.slope, f.channel.conf)>>)
    \o (IF f.hs THEN <<HeadShouldersPattern>> ELSE <<>>)

\* DeepMarketAnalyzer.analyze_volume_profile: strength in tenths
\* facts: vol (volume usable), high (volume_ratio > 1.3), above (close above
\* the middle of the recent range)
analyze_volume_profile(f) ==
    IF ~f.vol THEN [bias |-> "NEUTRAL", strength |-> 0, score |-> 0]
    ELSE IF f.high
        THEN IF f.above THEN [bias |-> "BUY", strength |-> 8, score |-> 15]
             ELSE [bias |-> "SELL", strength |-> 8, score |-> 15]
    ELSE [bias |-> "NEUTRAL", strength |-> 3, score |-> 0]

\* the result of _get_higher_timeframe_context; multiplier in tenths
HtfContext(trend) ==
    CASE trend = "up"   -> [bias |-> "BUY", multiplier |-> 13]
      [] trend = "down" -> [bias |-> "SELL", multiplier |-> 13]
      [] OTHER          -> [bias |-> "NEUTRAL", multiplier |-> 10]

\* self.weights.get(strategy, 0.1)
WeightOf(weights, strategy) ==
    IF strategy \in DOMAIN weights THEN weights[strategy] ELSE Rat(1, 10)

\* a gate that lets every score of at least 10 through
MeetsThresholdTen(score) == RGe(score, RInt(10))

\* score >= config.MIN_SIGNAL_SCORE
MeetsThreshold(score) == RGe(score, RInt(MIN_SIGNAL_SCORE))

\* an accumulator that also takes the opinions of the other direction
RECURSIVE StrategyScoreAnyDirection(_, _, _, _)
StrategyScoreAnyDirection(weights, strategy_results, dir, i) ==
    IF i > Len(StrategyNames) THEN RInt(0)
    ELSE LET strategy == StrategyNames[i]
             result == strategy_results[strategy]
             rest == StrategyScoreAnyDirection(weights, strategy_results, dir, i + 1)
         IN IF result.direction \in {"BUY", "SELL"}
            THEN RAdd(RMul(RInt(result.score), WeightOf(weights, strategy)), rest)
            ELSE rest

\* an accumulator that divides each weight by the sum of the weights
RECURSIVE StrategyScoreNormalized(_, _, _, _)
StrategyScoreNormalized(weights, strategy_results, dir, i) ==
    IF i > Len(StrategyNames) THEN RInt(0)
    ELSE LET strategy == StrategyNames[i]
             result == strategy_results[strategy]
             rest == StrategyScoreNormalized(weights, strategy_results, dir, i + 1)
         IN IF result.direction = dir
            THEN RAdd(RMul(RInt(result.score),
                           RDiv(WeightOf(weights, strategy), WeightTotal(weights))), rest)
            ELSE rest

\* step 1 of _synthesize_deep_analysis: the weighted strategy opinions of
\* one direction, in evaluation order
RECURSIVE StrategyScore(_, _, _, _)
StrategyScore(weights, strategy_results, dir, i) ==
    IF i > Len(StrategyNames) THEN RInt(0)
    ELSE LET strategy == StrategyNames[i]
             result == strategy_results[strategy]
             rest == StrategyScore(weights, strategy_results, dir, i + 1)
         IN IF result.direction = dir
            THEN RAdd(RMul(RInt(result.score), WeightOf(weights, strategy)), rest)
            ELSE rest

\* step 3: the patterns that add to one direction
RECURSIVE PatternScore(_, _)
PatternScore(patterns, dir) ==
    IF patterns = <<>> THEN 0
    ELSE (IF Head(patterns).direction = dir /\ Head(patterns).confidence > 7
          THEN Head(patterns).score ELSE 0)
         + PatternScore(Tail(patterns), dir)

RECURSIVE PatternReasons(_)
PatternReasons(patterns) ==
    IF patterns = <<>> THEN <<>>
    ELSE (IF Head(patterns).direction \in {"BUY", "SELL"} /\ Head(patterns).confidence > 7
          THEN <<[layer |-> "Pattern", direction |-> Head(patterns).direction]>>
          ELSE <<>>)
         \o PatternReasons(Tail(patterns))

\* the accumulator of one direction after steps 1 to 5
DirectionScore(weights, in, htf_context, dir) ==
    LET sr_signal == analyze_sr_interaction(in.sr_levels)
        s1 == StrategyScore(weights, in.strategy_results, dir, 1)
        s2 == IF sr_signal.direction = dir THEN sr_signal.score ELSE 0
        s3 == PatternScore(in.patterns, dir)
        s4 == IF in.volume_analysis.bias = dir /\ in.volume_analysis.strength > 6
              THEN in.volume_analysis.score ELSE 0
        sum == RAdd(s1, RInt(s2 + s3 + s4))
    IN IF htf_context.bias = dir
       THEN RMul(sum, Rat(htf_context.multiplier, 10))
       ELSE sum

\* enhanced_reasons, each tagged with the direction its layer voted for
EnhancedReasons(in, htf_context) ==
    LET sr_signal == analyze_sr_interaction(in.sr_levels)
    IN (IF sr_signal.direction \in {"BUY", "SELL"}
        THEN <<[layer |-> "Major S/R", direction |-> sr_signal.direction]>> ELSE <<>>)
       \o PatternReasons(in.patterns)
       \o (IF in.volume_analysis.bias \in {"BUY", "SELL"} /\ in.volume_analysis.strength > 6
           THEN <<[layer |-> "Volume", direction |-> in.volume_analysis.bias]>> ELSE <<>>)
       \o (IF htf_context.bias \in {"BUY", "SELL"}
           THEN <<[layer |-> "HTF Bias", direction |-> htf_context.bias]>> ELSE <<>>)

Top5(seq) == IF Len(seq) <= 5 THEN seq ELSE SubSeq(seq, 1, 5)

\* a final evaluation that lets the buy side win a tie
synthesize_with_ties(weights, in, htf_context, entry, timeframe) ==
    LET buy_score == DirectionScore(weights, in, htf_context, "BUY")
        sell_score == DirectionScore(weights, in, htf_context, "SELL")
        reasons == Top5(EnhancedReasons(in, htf_context))
    IN IF RGe(buy_score, sell_score) /\ MeetsThreshold(buy_score)
       THEN [direction |-> "BUY", entry |-> entry, score |-> buy_score,
             timeframe |-> "M" \o timeframe, reasons |-> reasons]
       ELSE IF RGt(sell_score, buy_score) /\ MeetsThreshold(sell_score)
       THEN [direction |-> "SELL", entry |-> entry, score |-> sell_score,
             timeframe |-> "M" \o timeframe, reasons |-> reasons]
       ELSE None

\* _synthesize_deep_analysis: the Signal of one timeframe, or None
synthesize_deep_analysis(weights, in, htf_context, entry, timeframe) ==
    LET buy_score == DirectionScore(weights, in, htf_context, "BUY")
        sell_score == DirectionScore(weights, in, htf_context, "SELL")
        reasons == Top5(EnhancedReasons(in, htf_context))
    IN IF RGt(buy_score, sell_score) /\ MeetsThreshold(buy_score)
       THEN [direction |-> "BUY", entry |-> entry, score |-> buy_score,
             timeframe |-> "M" \o timeframe, reasons |-> reasons]
       ELSE IF RGt(sell_score, buy_score) /\ MeetsThreshold(sell_score)
       THEN [direction |-> "SELL", entry |-> entry, score |-> sell_score,
             timeframe |-> "M" \o timeframe, reasons |-> reasons]
       ELSE None


(***************************************************************************)
(* trading/data_manager.py: the price cache                                 *)
(***************************************************************************)
professional_sources ==
    <<"tradingview_official", "mt5_broker_feeds", "tradingview_realtime",
      "ic_markets_mt5", "pepperstone_mt5", "xm_mt5", "fxpro_mt5", "avatrade_mt5">>

\* professional_sources[:3], the sources of the immediate sync
SyncPrefix == 3

\* the fallback price of get_current_price and get_data
FallbackPrice == 3357

\* what the environment lets a pass over the sources see: every source
\* fails (None), or source `source` is the first to answer, with `price`
\* (0 stands for a falsy answer)
RawPrices == {0, 3350, 3381}

ProbeSources == {1, 4}

FetchOutcomes == {None} \cup [source : ProbeSources, price : RawPrices]

\* a validation that only asks for a positive price
validate_positive_price(price) == price > 0

validate_professional_price(price) ==
    IF price <= 0 THEN FALSE
    ELSE IF ~(3340 <= price /\ price <= 3380) THEN FALSE
    ELSE TRUE

\* a pass over sources[1..n]: the first valid price, or None
FirstValid(fetch, n) ==
    IF fetch # None /\ fetch.source <= n /\ validate_professional_price(fetch.price)
    THEN fetch ELSE None

\* the immediate sync runs only without a cached price
SyncOutcomes(cp) == IF cp # None THEN {None} ELSE FetchOutcomes

\* get_current_price on the cache <<cp, lu, src>>; `fetch` is what the
\* immediate sync would see.  raised: datetime.now() - None (TypeError)
get_current_price(cp, lu, src, fetch) ==
    IF cp # None
    THEN IF lu = None
         THEN [raised |-> TRUE, price |-> None, fallback |-> FALSE,
               current_price |-> cp, last_update |-> lu, active_source |-> src]
         ELSE [raised |-> FALSE, price |-> cp, fallback |-> FALSE,
               current_price |-> cp, last_update |-> lu, active_source |-> src]
    ELSE LET hit == FirstValid(fetch, SyncPrefix)
         IN IF hit # None
            THEN [raised |-> FALSE, price |-> [usd |-> hit.price], fallback |-> FALSE,
                  current_price |-> [usd |-> hit.price], last_update |-> [set |-> TRUE],
                  active_source |-> professional_sources[hit.source]]
            ELSE [raised |-> FALSE, price |-> [usd |-> FallbackPrice], fallback |-> TRUE,
                  current_price |-> cp, last_update |-> lu, active_source |-> src]

\* get_data(timeframe, bars): a generated frame of `bars` bars whose last
\* close is the price; the OHLCV columns are always present
get_data(bars, cp, lu, src, fetch) ==
    LET p == get_current_price(cp, lu, src, fetch)
    IN [raised |-> p.raised,
        df |-> IF p.raised THEN None
               ELSE [len |-> bars, cols |-> TRUE, vol |-> TRUE, close |-> p.price.usd],
        fallback |-> p.fallback,
        current_price |-> p.current_price, last_update |-> p.last_update,
        active_source |-> p.active_source]


(***************************************************************************)
(* Weight Maps are dict objects.  A component holds a reference to one: to  *)
(* the dict built as config.STRATEGY_WEIGHTS, to a dict that a later        *)
(* update_strategy_weights bound there, or to a dict of its own, made by    *)
(* json.load or by a normalisation.                                         *)
(***************************************************************************)
\* how many times update_strategy_weights is called
MaxConfigUpdates == 1

ConfigDict(n) == <<"config", n>>

DefaultDict == ConfigDict(0)

SgDict == <<"sg", 0>>

OptDict == <<"opt", 0>>

DictIds == {ConfigDict(n) : n \in 0..MaxConfigUpdates} \cup {SgDict, OptDict}

\* the weight file: None (missing), Corrupt (not JSON) or the parsed object
Corrupt == [corrupt |-> TRUE]

Readable(file) == file # None /\ file # Corrupt

HalvesFile == [s \in {"bollinger", "support_resistance"} |-> Rat(1, 2)]

\* the example of the specification: two keys, sum 1.4
UnnormalizedFile ==
    [s \in {"bollinger", "volume"} |-> IF s = "bollinger" THEN Rat(1, 2) ELSE Rat(9, 10)]

\* try: self.weights = json.load(open(WEIGHTS_FILE))
\* except: self.weights = config.STRATEGY_WEIGHTS
\* ref: the dict now held; dict: the contents of the new dict `own`, if any
load_weights(file, config_ref, own) ==
    IF Readable(file) THEN [ref |-> own, dict |-> file]
    ELSE [ref |-> config_ref, dict |-> None]

(***************************************************************************)
(* State                                                                    *)
(***************************************************************************)
VARIABLES
    weights_file,     \* data/xauusd_strategy_weights.json
    heap,             \* the contents of the Weight Map dicts, by identity
    config_weights,   \* config.STRATEGY_WEIGHTS (a reference)
    sg_weights,       \* Enhanced1000CandleSignalGenerator.weights (a reference)
    current_price,    \* DataManager.current_price
    last_update,      \* DataManager.last_update
    active_source,    \* DataManager.active_source
    update_thread,    \* position and locals of _professional_update_loop
    pc,               \* position of generate_enhanced_signal
    tf_index,         \* index into config.TIMEFRAMES of the loop
    best_signal,      \* local best_signal
    best_score,       \* local best_score
    returned,         \* the value the last call returned
    cycle,            \* observations of the running call (history)
    opt_weights,      \* StrategyOptimizer.weights (a reference)
    last_op,          \* the last weight operation: its steps and outcome
    call,             \* a single call of a function under study
    jobs,             \* the running instances of the 'market_analysis' job
    missed,           \* a run of the job was skipped: max instances reached
    trade_counter,    \* TradingSystem.trade_counter
    trades,           \* PerformanceTracker.trades: of the system, of the optimizer, on file
    live_update_active, \* DataManager.live_update_active
    threads,          \* the Thread objects start_professional_updates has created
    news              \* RealForexFactoryNewsMonitor: its cache, its sent alerts, the clock

vars == <<weights_file, heap, config_weights, sg_weights,
          current_price, last_update, active_source, update_thread,
          pc, tf_index, best_signal, best_score, returned, cycle,
          opt_weights, last_op, call,
          jobs, missed, trade_counter, trades,
          live_update_active, threads, news>>

weight_vars == <<weights_file, heap, config_weights, sg_weights>>

dm_vars == <<current_price, last_update, active_source, update_thread>>

cycle_vars == <<pc, tf_index, best_signal, best_score, returned, cycle>>

aux_vars == <<opt_weights, last_op, call>>

app_vars == <<jobs, missed, trade_counter, trades>>

svc_vars == <<live_update_active, threads, news>>

\* the dict a reference points to
Deref(ref) == heap[ref]

\* no weight operation has run since construction
NoOp == [op |-> "none", count |-> 0]

ThreadIdle == [pc |-> "fetch", source |-> None, price |-> None]

\* the thread in time.sleep(1) after a pass over the sources
ThreadSleeping == [pc |-> "sleep", source |-> None, price |-> None]

NoCycle == [evaluated |-> <<>>, all_fallback |-> TRUE, aborted |-> FALSE]


(***************************************************************************)
(* Inputs of one timeframe evaluation.  get_data generates the candles at   *)
(* random around the price, so the facts of the window and of the higher    *)
(* timeframe trend are free.                                                *)
(***************************************************************************)
QuietBB == [squeeze |-> FALSE, pos |-> "mid", lng |-> "none"]

NoPatterns == [triangle |-> FALSE, channel |-> None, hs |-> FALSE]

NormalVolume == [vol |-> TRUE, high |-> FALSE, above |-> FALSE]

Trends == {"up", "down", "sideways"}

\* the facts drawn in a signal generation cycle
CycleFacts ==
    [bb : {QuietBB, [QuietBB EXCEPT !.pos = "le10"], [QuietBB EXCEPT !.pos = "ge90"]},
     srs : {None,
            [type |-> "support", strength |-> "intermediate", touches |-> 1],
            [type |-> "resistance", strength |-> "major", touches |-> 4]},
     sr_levels : {<<>>},
     patterns : {NoPatterns},
     volume : {NormalVolume},
     trend : {"sideways", "up"}]

\* the frame of get_data with the drawn facts
Window(df, facts) == [len |-> df.len, cols |-> df.cols, vol |-> df.vol,
                      bb |-> facts.bb, srs |-> facts.srs]

\* layers 1 to 4 of _perform_deep_analysis
DeepLayers(df, facts) ==
    [strategy_results |-> analyze(Window(df, facts)),
     sr_levels |-> facts.sr_levels,
     patterns |-> detect_major_patterns(facts.patterns),
     volume_analysis |-> analyze_volume_profile(facts.volume)]

\* _get_higher_timeframe_context: get_data(htf, 200) inside try/except
higher_timeframe_context(htf_data, trend) ==
    IF htf_data.raised THEN HtfContext("failed")
    ELSE IF htf_data.df.len < 50 THEN HtfContext("no data")
    ELSE HtfContext(trend)

(***************************************************************************)
(* trading/risk_manager.py.  A Signal is a dict: the function adds keys to  *)
(* it one statement after the other, and a key read before it is written    *)
(* takes the default of signal.get.                                         *)
(***************************************************************************)
RSub(a, b) == RAdd(a, <<-b[1], b[2]>>)

RAbs(a) == <<Abs(a[1]), a[2]>>

RECURSIVE Pow10(_)
Pow10(n) == IF n = 0 THEN 1 ELSE 10 * Pow10(n - 1)

\* round(x, ndigits) of a non-negative number: to the nearest, a tie to the
\* even digit (the ties that occur, like 0.3125, are exact in binary)
Round(x, ndigits) ==
    LET y == RMul(x, RInt(Pow10(ndigits)))
        q == y[1] \div y[2]
        r == y[1] % y[2]
        up == 2 * r > y[2] \/ (2 * r = y[2] /\ q % 2 = 1)
    IN Rat(IF up THEN q + 1 ELSE q, Pow10(ndigits))

\* signal.get(key, default)
Get(signal, key, default) == IF key \in DOMAIN signal THEN signal[key] ELSE default

\* config.RISK_PERCENTAGE, in percent
RISK_PERCENTAGE == 2

\* EnhancedRiskManager.symbol_configs
symbol_configs ==
    [XAUUSD |-> [default_sl |-> RInt(8),
                 tp_levels |-> <<RInt(5), RInt(10), RInt(15), RInt(25)>>,
                 min_distance |-> RInt(2), max_sl |-> RInt(20)],
     BTCUSD |-> [default_sl |-> RInt(300),
                 tp_levels |-> <<RInt(500), RInt(1000), RInt(1500), RInt(2500)>>,
                 min_distance |-> RInt(100), max_sl |-> RInt(1000)]]

\* self.symbol_configs.get(symbol, self.symbol_configs['XAUUSD'])
SymbolConfig(symbol) ==
    IF symbol \in DOMAIN symbol_configs THEN symbol_configs[symbol]
    ELSE symbol_configs["XAUUSD"]

\* signal.get('symbol', config.PRIMARY_SYMBOL)
SymbolOf(signal) == Get(signal, "symbol", PRIMARY_SYMBOL)

\* a stop distance with the sign turned
calculate_dynamic_sl_negated(signal, symbol_config) ==
    <<-symbol_config.default_sl[1], symbol_config.default_sl[2]>>

\* _calculate_dynamic_sl; the volatility multiplier is the constant 1.0
calculate_dynamic_sl(signal, symbol_config) ==
    LET score == Get(signal, "score", RInt(75))
        sl_multiplier == IF RGe(score, RInt(90)) THEN Rat(8, 10)
                         ELSE IF RGe(score, RInt(85)) THEN Rat(9, 10)
                         ELSE IF RGe(score, RInt(80)) THEN RInt(1)
                         ELSE IF RGe(score, RInt(75)) THEN Rat(12, 10)
                         ELSE Rat(15, 10)
        dynamic_sl == RMul(symbol_config.default_sl, sl_multiplier)
    IN RMax(symbol_config.min_distance, RMin(symbol_config.max_sl, dynamic_sl))

\* the USD value of a distance for the position of the signal; a signal
\* without position_size counts as 0.1
UsdAtRisk(signal, distance) ==
    LET position_size == Get(signal, "position_size", Rat(1, 10))
    IN IF SymbolOf(signal) = "BTCUSD" THEN RMul(distance, position_size)
       ELSE RMul(RMul(distance, position_size), RInt(100))

\* _calculate_max_loss
calculate_max_loss(signal) == UsdAtRisk(signal, RAbs(RSub(signal.sl, RInt(signal.entry))))

\* _calculate_potential_profit: at tp2
calculate_potential_profit(signal) ==
    UsdAtRisk(signal, RAbs(RSub(Get(signal, "tp2", RInt(signal.entry)), RInt(signal.entry))))

\* _add_enhanced_risk_metrics
add_enhanced_risk_metrics(signal) ==
    LET entry == RInt(signal.entry)
        sl_distance == RAbs(RSub(signal.sl, entry))
        tps == <<signal.tp1, signal.tp2, signal.tp3, signal.tp4>>
        tp_distance(i) == RAbs(RSub(tps[i], entry))
        total_reward == RAdd(RAdd(tp_distance(1), tp_distance(2)),
                             RAdd(tp_distance(3), tp_distance(4)))
        positive == RGt(sl_distance, RInt(0))
    IN [risk_metrics |-> [i \in 1..4 |->
                             IF positive THEN Round(RDiv(tp_distance(i), sl_distance), 2)
                             ELSE RInt(0)],
        average_rr |-> IF positive
                       THEN Round(RDiv(total_reward, RMul(RInt(4), sl_distance)), 2)
                       ELSE RInt(0),
        max_loss_usd |-> calculate_max_loss(signal),
        potential_profit_usd |-> calculate_potential_profit(signal)] @@ signal

\* _calculate_enhanced_position_size, account balance 10000
calculate_enhanced_position_size(signal) ==
    LET max_risk_usd == RMul(RInt(10000), Rat(RISK_PERCENTAGE, 100))
        sl_distance == RAbs(RSub(signal.sl, RInt(signal.entry)))
        position_size == RDiv(max_risk_usd, sl_distance)
    IN IF SymbolOf(signal) = "BTCUSD" THEN Round(RMin(position_size, Rat(1, 10)), 6)
       ELSE IF SymbolOf(signal) = "XAUUSD"
       THEN Round(RMin(RDiv(position_size, RInt(100)), RInt(1)), 3)
       ELSE Rat(1, 10)

\* _generate_risk_warnings
generate_risk_warnings(signal) ==
    (IF RLt(Get(signal, "score", RInt(75)), RInt(80)) THEN <<"signal strength">> ELSE <<>>)
    \o (IF RLt(Get(signal, "average_rr", RInt(0)), Rat(15, 10)) THEN <<"risk-reward">> ELSE <<>>)
    \o (IF RGt(Get(signal, "max_loss_usd", RInt(0)), RInt(200)) THEN <<"high risk">> ELSE <<>>)
    \o (IF SymbolOf(signal) = "BTCUSD" THEN <<"volatility">>
        ELSE IF SymbolOf(signal) = "XAUUSD" THEN <<"gaps">> ELSE <<>>)

\* calculate_enhanced_risk_parameters: direction, entry, score, timeframe
\* and reasons stay as they are
calculate_enhanced_risk_parameters(signal) ==
    LET symbol_config == SymbolConfig(SymbolOf(signal))
        entry == RInt(signal.entry)
        sl_distance == calculate_dynamic_sl(signal, symbol_config)
        tp(i) == IF signal.direction = "BUY" THEN RAdd(entry, symbol_config.tp_levels[i])
                 ELSE RSub(entry, symbol_config.tp_levels[i])
        levels == [sl |-> IF signal.direction = "BUY" THEN RSub(entry, sl_distance)
                          ELSE RAdd(entry, sl_distance),
                   tp1 |-> tp(1), tp2 |-> tp(2), tp3 |-> tp(3), tp4 |-> tp(4)] @@ signal
        measured == add_enhanced_risk_metrics(levels)
        sized == [position_size |-> calculate_enhanced_position_size(measured)] @@ measured
    IN [risk_warnings |-> generate_risk_warnings(sized)] @@ sized

TypeOK ==
    /\ pc \in {"idle", "loop", "select", "done"}
    /\ tf_index \in 1..(Len(TIMEFRAMES) + 1)
    /\ update_thread.pc \in {"fetch", "last_update", "active_source", "sleep"}

\* ProfessionalTradingDataManager.__init__
DmInit ==
    /\ current_price = None
    /\ last_update = None
    /\ active_source = "unknown"
    /\ update_thread = ThreadIdle

\* no signal generation cycle is running
CycleInit ==
    /\ pc = "idle"
    /\ tf_index = 1
    /\ best_signal = None
    /\ best_score = RInt(0)
    /\ returned = None
    /\ cycle = NoCycle

\* the number of instances of the analysis job the executor has room for
JobSlots == 2

\* TradingSystem.__init__ and PerformanceTracker.__init__ with an empty
\* trades file; the scheduler has started no job
AppInit ==
    /\ jobs = [slot \in 1..JobSlots |-> None]
    /\ missed = FALSE
    /\ trade_counter = 0
    /\ trades = [system |-> <<>>, optimizer |-> <<>>, file |-> <<>>]

\* the only Thread object is the one __init__ started; it is taken as
\* running for good wherever stop_professional_updates is not called.  The
\* news monitor has been constructed and not started.
SvcInit ==
    /\ live_update_active = TRUE
    /\ threads = <<"run">>
    /\ news = None

\* config.STRATEGY_WEIGHTS as built, and the constructors of the signal
\* generator and of the optimizer, each with its load_weights
WeightsInit(files) ==
    /\ weights_file \in files
    /\ config_weights = DefaultDict
    /\ sg_weights = load_weights(weights_file, DefaultDict, SgDict).ref
    /\ opt_weights = load_weights(weights_file, DefaultDict, OptDict).ref
    /\ heap = [id \in DictIds |->
                  IF id = DefaultDict THEN STRATEGY_WEIGHTS
                  ELSE IF id \in {SgDict, OptDict} /\ Readable(weights_file)
                       THEN weights_file
                  ELSE None]
    /\ last_op = NoOp

Init ==
    /\ WeightsInit({None, HalvesFile})
    /\ DmInit
    /\ CycleInit
    /\ AppInit
    /\ SvcInit
    /\ call = None

(***************************************************************************)
(* _professional_update_loop, one statement at a time                       *)
(***************************************************************************)
\* lines 85-90: the pass over the sources up to self.current_price = price
UpdateFetch ==
    /\ update_thread.pc = "fetch"
    /\ \E fetch \in FetchOutcomes :
         LET hit == FirstValid(fetch, Len(professional_sources))
         IN IF hit # None
            THEN /\ current_price' = [usd |-> hit.price]
                 /\ update_thread' = [pc |-> "last_update",
                                      source |-> professional_sources[hit.source],
                                      price |-> hit.price]
            ELSE /\ update_thread' = ThreadSleeping
                 /\ UNCHANGED current_price
    /\ UNCHANGED <<last_update, active_source>>
    /\ UNCHANGED <<weight_vars, cycle_vars, aux_vars, app_vars, svc_vars>>

\* line 91
UpdateSetTime ==
    /\ update_thread.pc = "last_update"
    /\ last_update' = [set |-> TRUE]
    /\ update_thread' = [update_thread EXCEPT !.pc = "active_source"]
    /\ UNCHANGED <<current_price, active_source>>
    /\ UNCHANGED <<weight_vars, cycle_vars, aux_vars, app_vars, svc_vars>>

\* lines 92-95
UpdateSetSource ==
    /\ update_thread.pc = "active_source"
    /\ active_source' = update_thread.source
    /\ update_thread' = ThreadSleeping
    /\ UNCHANGED <<current_price, last_update>>
    /\ UNCHANGED <<weight_vars, cycle_vars, aux_vars, app_vars, svc_vars>>

\* line 102: time.sleep(1), then the next pass
UpdateSleep ==
    /\ update_thread.pc = "sleep"
    /\ update_thread' = ThreadIdle
    /\ UNCHANGED <<current_price, last_update, active_source>>
    /\ UNCHANGED <<weight_vars, cycle_vars, aux_vars, app_vars, svc_vars>>

(***************************************************************************)
(* generate_enhanced_signal                                                 *)
(***************************************************************************)
\* lines 55-59
StartCycle ==
    /\ pc = "idle"
    /\ pc' = "loop"
    /\ tf_index' = 1
    /\ best_signal' = None
    /\ best_score' = RInt(0)
    /\ returned' = None
    /\ cycle' = NoCycle
    /\ UNCHANGED <<weight_vars, dm_vars, aux_vars, app_vars, svc_vars>>

\* a test that lets every frame through that is not None
InsufficientDataNoneOnly(df) == df = None

\* line 66: df_deep is None or len(df_deep) < 200
InsufficientData(df) == df = None \/ df.len < 200

\* what a timeframe contributed to the selection: its score, if any
Candidate(analysis_result) ==
    IF analysis_result = None THEN None ELSE [score |-> analysis_result.score]

\* lines 61-78: one iteration of the loop over config.TIMEFRAMES; an
\* exception leaves through the handler of lines 93-95
LoopTimeframe ==
    /\ pc = "loop"
    /\ \E fetch \in SyncOutcomes(current_price) :
       \E htf_fetch \in SyncOutcomes(get_current_price(current_price, last_update,
                                                        active_source, fetch).current_price) :
       \E facts \in CycleFacts :
         LET timeframe == TIMEFRAMES[tf_index]
             data == get_data(1200, current_price, last_update, active_source, fetch)
             htf_data == get_data(200, data.current_price, data.last_update,
                                  data.active_source, htf_fetch)
             htf_context == higher_timeframe_context(htf_data, facts.trend)
             skipped == InsufficientData(data.df)
             analysis_result ==
                 synthesize_deep_analysis(Deref(sg_weights), DeepLayers(data.df, facts),
                                          htf_context, data.df.close, timeframe)
             better == analysis_result # None /\ RGt(analysis_result.score, best_score)
             last == IF tf_index = Len(TIMEFRAMES) THEN "select" ELSE "loop"
         IN IF data.raised
            THEN /\ pc' = "done"
                 /\ returned' = None
                 /\ cycle' = [cycle EXCEPT !.aborted = TRUE]
                 /\ UNCHANGED <<tf_index, best_signal, best_score>>
                 /\ UNCHANGED <<current_price, last_update, active_source>>
            ELSE IF skipped
            THEN /\ pc' = last
                 /\ tf_index' = tf_index + 1
                 /\ cycle' = [cycle EXCEPT !.evaluated = Append(@, None),
                                           !.all_fallback = @ /\ data.fallback]
                 /\ current_price' = data.current_price
                 /\ last_update' = data.last_update
                 /\ active_source' = data.active_source
                 /\ UNCHANGED <<best_signal, best_score, returned>>
            ELSE /\ pc' = last
                 /\ tf_index' = tf_index + 1
                 /\ best_signal' = IF better THEN analysis_result ELSE best_signal
                 /\ best_score' = IF better THEN analysis_result.score ELSE best_score
                 /\ cycle' = [cycle EXCEPT !.evaluated = Append(@, Candidate(analysis_result)),
                                           !.all_fallback = @ /\ data.fallback
                                                              /\ htf_data.fallback]
                 /\ current_price' = htf_data.current_price
                 /\ last_update' = htf_data.last_update
                 /\ active_source' = htf_data.active_source
                 /\ UNCHANGED returned
    /\ UNCHANGED update_thread
    /\ UNCHANGED <<weight_vars, aux_vars, app_vars, svc_vars>>

\* lines 80-91
SelectSignal ==
    /\ pc = "select"
    /\ pc' = "done"
    /\ returned' = IF best_signal # None /\ MeetsThreshold(best_score)
                   THEN calculate_enhanced_risk_parameters(best_signal)
                   ELSE None
    /\ UNCHANGED <<tf_index, best_signal, best_score, cycle>>
    /\ UNCHANGED <<weight_vars, dm_vars, aux_vars, app_vars, svc_vars>>

\* the caller takes the result; the next cycle may start
EndCycle ==
    /\ pc = "done"
    /\ pc' = "idle"
    /\ tf_index' = 1
    /\ best_signal' = None
    /\ best_score' = RInt(0)
    /\ returned' = None
    /\ cycle' = NoCycle
    /\ UNCHANGED <<weight_vars, dm_vars, aux_vars, app_vars, svc_vars>>

Next ==
    \/ UpdateFetch
    \/ UpdateSetTime
    \/ UpdateSetSource
    \/ UpdateSleep
    \/ StartCycle
    \/ LoopTimeframe
    \/ SelectSignal
    \/ EndCycle

Spec == Init /\ [][Next]_vars


(***************************************************************************)
(* Properties of the signal generation cycle (specification Spec)           *)
(***************************************************************************)
\* the timeframes of the cycle that produced a candidate
CandidateIndices == {i \in 1..Len(cycle.evaluated) : cycle.evaluated[i] # None}

\* candidate i has the maximum score, and is the earliest with it
IsBest(i) ==
    \A j \in CandidateIndices :
        /\ RGe(cycle.evaluated[i].score, cycle.evaluated[j].score)
        /\ cycle.evaluated[j].score = cycle.evaluated[i].score => i <= j

\* C1 (threshold gate): generate_enhanced_signal never returns a Signal whose
\* score is below MIN_SIGNAL_SCORE, and when no timeframe of the cycle has a
\* winning score that reaches the threshold it returns no Signal.
C1_ThresholdGate ==
    pc = "done" =>
        /\ returned # None => RGe(returned.score, RInt(MIN_SIGNAL_SCORE))
        /\ (\A i \in CandidateIndices :
                RLt(cycle.evaluated[i].score, RInt(MIN_SIGNAL_SCORE)))
           => returned = None

\* a cycle returned a Signal although one of its timeframes stayed silent
C1_Witness ==
    /\ pc = "done"
    /\ returned # None
    /\ \E i \in 1..Len(cycle.evaluated) : cycle.evaluated[i] = None

\* C4 (cross-timeframe selection): when some timeframe of the cycle produced
\* a candidate, the cycle returns the candidate with the maximum score, and
\* on equal maximum scores the one of the earliest timeframe in TIMEFRAMES.
C4_CrossTimeframeMax ==
    (pc = "done" /\ CandidateIndices # {}) =>
        /\ returned # None
        /\ \E i \in CandidateIndices :
              /\ IsBest(i)
              /\ returned.score = cycle.evaluated[i].score
              /\ returned.timeframe = "M" \o TIMEFRAMES[i]

\* the selection rule in the cycles that run through all timeframes
CompletedCycleMax == cycle.aborted \/ C4_CrossTimeframeMax

\* two timeframes of a completed cycle tie on the maximum score
TieAcrossTimeframes ==
    /\ pc = "done"
    /\ ~cycle.aborted
    /\ \E i, j \in CandidateIndices : i < j /\ IsBest(i)
          /\ cycle.evaluated[j].score = cycle.evaluated[i].score

\* C9 (per-timeframe failure isolation): a failure on one timeframe does not
\* lose the qualifying Signal already found on an earlier timeframe.
C9_FailureIsolation ==
    (pc = "done" /\ best_signal # None /\ RGe(best_score, RInt(MIN_SIGNAL_SCORE)))
        => returned # None

\* C10 (silence on total data failure): a cycle in which no price source ever
\* returned a valid price returns no Signal.
C10_SilenceOnDataFailure ==
    (pc = "done" /\ cycle.all_fallback /\ current_price = None
        /\ Len(cycle.evaluated) = Len(TIMEFRAMES))
        => returned = None


(***************************************************************************)
(* _synthesize_deep_analysis as a function of its inputs (specification     *)
(* SpecAgg): one call on the results of the five layers                     *)
(***************************************************************************)
FullFrame == [len |-> 1200, cols |-> TRUE, vol |-> TRUE, close |-> FallbackPrice]

AggFacts ==
    [bb : {QuietBB, [QuietBB EXCEPT !.pos = "le10"], [QuietBB EXCEPT !.pos = "ge90"],
           [QuietBB EXCEPT !.squeeze = TRUE, !.pos = "gt60"],
           [QuietBB EXCEPT !.lng = "upper"]},
     srs : {None,
            [type |-> "support", strength |-> "intermediate", touches |-> 1],
            [type |-> "resistance", strength |-> "intermediate", touches |-> 1],
            [type |-> "resistance", strength |-> "major", touches |-> 4]},
     sr_levels : {<<>>,
                  <<[type |-> "support", strength |-> "major"]>>,
                  <<[type |-> "resistance", strength |-> "intermediate"]>>,
                  <<[type |-> "support", strength |-> "minor"],
                    [type |-> "resistance", strength |-> "major"]>>},
     patterns : {NoPatterns,
                 [NoPatterns EXCEPT !.triangle = TRUE],
                 [NoPatterns EXCEPT !.channel = [slope |-> "up", conf |-> 8]],
                 [NoPatterns EXCEPT !.channel = [slope |-> "down", conf |-> 9], !.hs = TRUE]},
     volume : {NormalVolume,
               [NormalVolume EXCEPT !.high = TRUE, !.above = TRUE],
               [NormalVolume EXCEPT !.high = TRUE]},
     trend : Trends]

InitAgg ==
    /\ WeightsInit({None, HalvesFile, UnnormalizedFile})
    /\ DmInit
    /\ CycleInit
    /\ AppInit
    /\ SvcInit
    /\ \E facts \in AggFacts :
         call = [fn |-> "_synthesize_deep_analysis",
                 in |-> DeepLayers(FullFrame, facts),
                 htf_context |-> HtfContext(facts.trend),
                 timeframe |-> TIMEFRAMES[1],
                 state |-> "called"]

\* the call: the accumulators after step 5 and the value returned
Synthesize ==
    /\ call # None
    /\ call.fn = "_synthesize_deep_analysis"
    /\ call.state = "called"
    /\ call' = [fn |-> call.fn, in |-> call.in, htf_context |-> call.htf_context,
                timeframe |-> call.timeframe, state |-> "returned",
                buy_score |-> DirectionScore(Deref(sg_weights), call.in,
                                             call.htf_context, "BUY"),
                sell_score |-> DirectionScore(Deref(sg_weights), call.in,
                                              call.htf_context, "SELL"),
                result |-> synthesize_deep_analysis(Deref(sg_weights), call.in,
                                                    call.htf_context, FullFrame.close,
                                                    call.timeframe)]
    /\ UNCHANGED <<weight_vars, dm_vars, cycle_vars, opt_weights, last_op, app_vars, svc_vars>>

NextAgg == Synthesize

SpecAgg == InitAgg /\ [][NextAgg]_vars

Synthesized == call # None /\ call.fn = "_synthesize_deep_analysis" /\ call.state = "returned"

\* C2 (tie silence): when the accumulated buy_score equals the accumulated
\* sell_score of a timeframe, no Signal is produced for it, also when the
\* common score is at or above MIN_SIGNAL_SCORE.
C2_TieSilence ==
    (Synthesized /\ call.buy_score = call.sell_score) => call.result = None

\* a tie at or above the threshold
C2_Witness ==
    /\ Synthesized
    /\ call.buy_score = call.sell_score
    /\ RGe(call.buy_score, RInt(MIN_SIGNAL_SCORE))


\* the strategies whose opinion has direction dir
WinningStrategies(strategy_results, dir) ==
    {s \in Strategies : strategy_results[s].direction = dir}

\* the sum of opinion.score * weight over a set of strategies; a strategy
\* the Weight Map does not list counts with 0.1
RECURSIVE SumOpinions(_, _, _)
SumOpinions(weights, strategy_results, S) ==
    IF S = {} THEN RInt(0)
    ELSE LET s == CHOOSE x \in S : TRUE
             weight == IF s \in DOMAIN weights THEN weights[s] ELSE Rat(1, 10)
         IN RAdd(RMul(RInt(strategy_results[s].score), weight),
                 SumOpinions(weights, strategy_results, S \ {s}))

RECURSIVE SumScores(_, _)
SumScores(patterns, I) ==
    IF I = {} THEN 0
    ELSE LET i == CHOOSE x \in I : TRUE
         IN patterns[i].score + SumScores(patterns, I \ {i})

\* what the S/R, pattern and volume layers add to direction dir
LayerBonus(in, dir) ==
    LET sr_signal == analyze_sr_interaction(in.sr_levels)
    IN (IF sr_signal.direction = dir THEN sr_signal.score ELSE 0)
       + SumScores(in.patterns, {i \in 1..Len(in.patterns) :
                                   /\ in.patterns[i].direction = dir
                                   /\ in.patterns[i].confidence > 7})
       + (IF in.volume_analysis.bias = dir /\ in.volume_analysis.strength > 6
          THEN in.volume_analysis.score ELSE 0)

\* C3 as stated (weighted-sum score): the score of an emitted Signal equals
\* the sum of opinion.score * weight over exactly the strategies whose opinion
\* has the winning direction.
C3_WeightedSumOnly ==
    (Synthesized /\ call.result # None) =>
        call.result.score =
            SumOpinions(Deref(sg_weights), call.in.strategy_results,
                        WinningStrategies(call.in.strategy_results, call.result.direction))

\* C3 as the code has it: the score of an emitted Signal is the weighted sum
\* over the strategies of the winning direction (weight 0.1 for a strategy
\* missing from the Weight Map), plus the S/R, pattern and volume bonuses of
\* that direction, times 1.3 when the higher timeframe agrees; NEUTRAL and
\* losing opinions contribute nothing.
C3_ScoreComposition ==
    (Synthesized /\ call.result # None) =>
        LET dir == call.result.direction
            sum == RAdd(SumOpinions(Deref(sg_weights), call.in.strategy_results,
                                    WinningStrategies(call.in.strategy_results, dir)),
                        RInt(LayerBonus(call.in, dir)))
        IN call.result.score =
               IF call.htf_context.bias = dir THEN RMul(sum, Rat(13, 10)) ELSE sum

\* a Signal with opinions on both sides, a bonus and an agreeing higher
\* timeframe
C3_Witness ==
    /\ Synthesized
    /\ call.result # None
    /\ WinningStrategies(call.in.strategy_results, call.result.direction) # {}
    /\ WinningStrategies(call.in.strategy_results,
                         IF call.result.direction = "BUY" THEN "SELL" ELSE "BUY") # {}
    /\ LayerBonus(call.in, call.result.direction) > 0
    /\ call.htf_context.bias = call.result.direction


(***************************************************************************)
(* StrategyEngine.analyze as a function of the candle window                *)
(* (specification SpecAnalyze)                                              *)
(***************************************************************************)
\* lengths around the guards of the strategies (20, 50, 100, 200)
WindowLengths == {0, 19, 20, 50, 99, 100, 199, 200, 1200}

\* candle windows: length, OHLC columns present, volume column present, and
\* what the Bollinger and S/R computations find on it
Windows == [len : WindowLengths, cols : BOOLEAN, vol : BOOLEAN,
            bb : BBFacts, srs : SRFacts]

InitAnalyze ==
    /\ WeightsInit({None})
    /\ DmInit
    /\ CycleInit
    /\ AppInit
    /\ SvcInit
    /\ \E df \in Windows : call = [fn |-> "analyze", df |-> df, state |-> "called"]

Analyze ==
    /\ call # None
    /\ call.fn = "analyze"
    /\ call.state = "called"
    /\ call' = [fn |-> call.fn, df |-> call.df, state |-> "returned",
                result |-> analyze(call.df)]
    /\ UNCHANGED <<weight_vars, dm_vars, cycle_vars, opt_weights, last_op, app_vars, svc_vars>>

NextAnalyze == Analyze

SpecAnalyze == InitAnalyze /\ [][NextAnalyze]_vars

Analyzed == call # None /\ call.fn = "analyze" /\ call.state = "returned"

\* the reasons of the opinions that stand for an exception
ErrorReasons ==
    {"Error", "Enhanced BB error", "Enhanced S/R error", "Enhanced SMC error",
     "Enhanced PA error", "Enhanced volume error", "Enhanced pattern error",
     "Enhanced candlestick error", "Enhanced FVG error", "Momentum error",
     "Structure error"}

\* C8 (heuristic totality): on every candle window analyze returns one
\* opinion for every registered strategy, each with a direction in
\* {BUY, SELL, NEUTRAL} and a score >= 0; a strategy that failed has NEUTRAL
\* with score 0, and the other strategies are evaluated all the same.
C8_HeuristicTotality ==
    Analyzed =>
        /\ DOMAIN call.result = Strategies
        /\ \A s \in Strategies :
              /\ call.result[s].direction \in {"BUY", "SELL", "NEUTRAL"}
              /\ call.result[s].score >= 0
              /\ call.result[s].reason \in ErrorReasons =>
                    (call.result[s].direction = "NEUTRAL" /\ call.result[s].score = 0)

\* some strategy failed on the window and another one still voted
C8_Witness ==
    /\ Analyzed
    /\ \E s \in Strategies : call.result[s].reason \in ErrorReasons
    /\ \E s \in Strategies : call.result[s].direction \in {"BUY", "SELL"}

(***************************************************************************)
(* learning/strategy_optimizer.py and config.update_strategy_weights        *)
(* (specification SpecWeights)                                              *)
(***************************************************************************)
\* how many weight operations a run performs
MaxOps == 2

\* {k: v/total for k, v in weights.items()}
Normalize(w) ==
    LET total == WeightTotal(w) IN [k \in DOMAIN w |-> RDiv(w[k], total)]

\* a save_weights that lets the error of the write out
save_weights_unguarded(file, weights, write_ok) ==
    [raised |-> ~write_ok, file |-> IF write_ok THEN weights ELSE file]

\* save_weights: try: json.dump(self.weights, open(WEIGHTS_FILE, 'w'))
\* except Exception: logged
save_weights(file, weights, write_ok) ==
    [raised |-> FALSE, file |-> IF write_ok THEN weights ELSE file]

\* the performance classes of optimize: fewer than 5 trades, or the win rate
\* at least 80, 70, 60, 50, or below 50
Bands == {"few", "super", "good", "average", "poor", "bad"}

\* the new weight of a strategy in optimize; bonus: avg_profit > 50
AdjustWeight(w, band, bonus) ==
    LET base == CASE band = "super"   -> RMin(Rat(35, 100), RMul(w, Rat(3, 2)))
                  [] band = "good"    -> RMin(Rat(25, 100), RMul(w, Rat(13, 10)))
                  [] band = "average" -> RMul(w, Rat(11, 10))
                  [] band = "poor"    -> RMax(Rat(5, 100), RMul(w, Rat(8, 10)))
                  [] band = "bad"     -> RMax(Rat(2, 100), RMul(w, Rat(5, 10)))
                  [] OTHER            -> w
    IN IF bonus THEN RMul(base, Rat(12, 10)) ELSE base

\* the new weight of a strategy in quick_optimize
QuickAdjustWeight(w, move) ==
    CASE move = "up"   -> RMin(Rat(3, 10), RMul(w, Rat(11, 10)))
      [] move = "down" -> RMax(Rat(5, 100), RMul(w, Rat(9, 10)))
      [] OTHER         -> w

\* the strategy the recorded trades name in triggered_strategies
ProfiledStrategy == "bollinger"

\* self.weights[strategy] = ... on the dict `target`, then the normalisation
\* into a new dict `own`; ref: the dict held afterwards
AdjustAndNormalize(target, own, adjusted) ==
    LET normalized == RGt(WeightTotal(adjusted), RInt(0))
    IN [ref |-> IF normalized THEN own ELSE target,
        heap |-> [id \in DictIds |->
                     IF normalized /\ id = own THEN Normalize(adjusted)
                     ELSE IF id = target THEN adjusted
                     ELSE heap[id]]]

OptimizeSteps(saved) ==
    IF saved.raised THEN <<"save_weights">>
    ELSE <<"save_weights", "save_performance_history",
           "optimize_risk_parameters", "report">>

InitWeights ==
    /\ WeightsInit({None, Corrupt, HalvesFile, UnnormalizedFile})
    /\ DmInit
    /\ CycleInit
    /\ AppInit
    /\ SvcInit
    /\ call = None

\* Enhanced1000CandleSignalGenerator.load_weights
SgLoadWeights ==
    /\ last_op.count < MaxOps
    /\ LET loaded == load_weights(weights_file, config_weights, SgDict)
       IN /\ sg_weights' = loaded.ref
          /\ heap' = IF loaded.dict = None THEN heap
                     ELSE [heap EXCEPT ![SgDict] = loaded.dict]
          /\ last_op' = [op |-> "load_weights", count |-> last_op.count + 1,
                         component |-> "signal_generator",
                         readable |-> Readable(weights_file),
                         defaults |-> config_weights, loaded |-> loaded.ref]
    /\ UNCHANGED <<weights_file, config_weights, opt_weights, call>>
    /\ UNCHANGED <<dm_vars, cycle_vars, app_vars, svc_vars>>

\* StrategyOptimizer.load_weights
OptLoadWeights ==
    /\ last_op.count < MaxOps
    /\ LET loaded == load_weights(weights_file, config_weights, OptDict)
       IN /\ opt_weights' = loaded.ref
          /\ heap' = IF loaded.dict = None THEN heap
                     ELSE [heap EXCEPT ![OptDict] = loaded.dict]
          /\ last_op' = [op |-> "load_weights", count |-> last_op.count + 1,
                         component |-> "optimizer",
                         readable |-> Readable(weights_file),
                         defaults |-> config_weights, loaded |-> loaded.ref]
    /\ UNCHANGED <<weights_file, config_weights, sg_weights, call>>
    /\ UNCHANGED <<dm_vars, cycle_vars, app_vars, svc_vars>>

\* StrategyOptimizer.optimize.  analysis_ok: analyze_strategy_performance and
\* the append to performance_history do not raise; band, bonus: the
\* performance of the profiled strategy; write_ok: the weight file can be
\* written
OptimizeWith(analysis_ok, band, bonus, write_ok) ==
    /\ last_op.count < MaxOps
    /\   LET w == Deref(opt_weights)
             adjusted == IF ProfiledStrategy \in DOMAIN w
                         THEN [w EXCEPT ![ProfiledStrategy] = AdjustWeight(@, band, bonus)]
                         ELSE w
             after == AdjustAndNormalize(opt_weights, OptDict, adjusted)
             saved == save_weights(weights_file, after.heap[after.ref], write_ok)
         IN IF ~analysis_ok
            THEN /\ last_op' = [op |-> "optimize", count |-> last_op.count + 1,
                                reached_save |-> FALSE, write_ok |-> write_ok,
                                steps |-> <<>>, raised |-> FALSE]
                 /\ UNCHANGED <<weights_file, heap, opt_weights>>
            ELSE /\ heap' = after.heap
                 /\ opt_weights' = after.ref
                 /\ weights_file' = saved.file
                 /\ last_op' = [op |-> "optimize", count |-> last_op.count + 1,
                                reached_save |-> TRUE, write_ok |-> write_ok,
                                steps |-> OptimizeSteps(saved), raised |-> FALSE]
    /\ UNCHANGED <<config_weights, sg_weights, call>>
    /\ UNCHANGED <<dm_vars, cycle_vars, app_vars, svc_vars>>

\* StrategyOptimizer.quick_optimize.  enough: at least 5 recent trades;
\* move: the profiled strategy won at least 75% (up) or at most 25% (down) of
\* its recent trades, or neither
QuickOptimizeEffect(enough, move, write_ok) ==
    /\   LET w == Deref(opt_weights)
             adjusted == IF ProfiledStrategy \in DOMAIN w
                         THEN [w EXCEPT ![ProfiledStrategy] = QuickAdjustWeight(@, move)]
                         ELSE w
             after == AdjustAndNormalize(opt_weights, OptDict, adjusted)
             normalized == after.ref = OptDict /\ RGt(WeightTotal(adjusted), RInt(0))
             saved == save_weights(weights_file, after.heap[after.ref], write_ok)
         IN IF ~enough
            THEN /\ last_op' = [op |-> "quick_optimize", count |-> last_op.count + 1,
                                adjusted |-> FALSE, raised |-> FALSE]
                 /\ UNCHANGED <<weights_file, heap, opt_weights>>
            ELSE /\ heap' = after.heap
                 /\ opt_weights' = after.ref
                 /\ weights_file' = IF normalized THEN saved.file ELSE weights_file
                 /\ last_op' = [op |-> "quick_optimize", count |-> last_op.count + 1,
                                adjusted |-> TRUE, raised |-> normalized /\ saved.raised]
    /\ UNCHANGED <<config_weights, sg_weights>>

\* quick_optimize called on its own
QuickOptimizeWith(enough, move, write_ok) ==
    /\ last_op.count < MaxOps
    /\ QuickOptimizeEffect(enough, move, write_ok)
    /\ UNCHANGED call
    /\ UNCHANGED <<dm_vars, cycle_vars, app_vars, svc_vars>>

\* optimize on any trade history
Optimize ==
    \E analysis_ok \in BOOLEAN, band \in Bands, bonus \in BOOLEAN, write_ok \in BOOLEAN :
        OptimizeWith(analysis_ok, band, bonus, write_ok)

\* quick_optimize on any trade history
QuickOptimize ==
    \E enough \in BOOLEAN, move \in {"up", "down", "none"}, write_ok \in BOOLEAN :
        QuickOptimizeWith(enough, move, write_ok)

\* arguments of update_strategy_weights
EqualOnes == [s \in DOMAIN STRATEGY_WEIGHTS |-> RInt(1)]

ZeroWeights == [s \in DOMAIN STRATEGY_WEIGHTS |-> RInt(0)]

\* the number of the dict config.STRATEGY_WEIGHTS is bound to
ConfigUpdates == config_weights[2]

\* config.update_strategy_weights(new_weights): ValueError when the keys
\* differ, else the normalised map (the map itself when its total is 0)
\* is bound to config.STRATEGY_WEIGHTS
UpdateStrategyWeights ==
    /\ last_op.count < MaxOps
    /\ ConfigUpdates < MaxConfigUpdates
    /\ \E new_weights \in {EqualOnes, ZeroWeights, HalvesFile} :
         IF DOMAIN new_weights # DOMAIN Deref(config_weights)
         THEN /\ last_op' = [op |-> "update_strategy_weights",
                             count |-> last_op.count + 1, raised |-> TRUE]
              /\ UNCHANGED <<heap, config_weights>>
         ELSE /\ config_weights' = ConfigDict(ConfigUpdates + 1)
              /\ heap' = [heap EXCEPT ![ConfigDict(ConfigUpdates + 1)] =
                              IF RGt(WeightTotal(new_weights), RInt(0))
                              THEN Normalize(new_weights) ELSE new_weights]
              /\ last_op' = [op |-> "update_strategy_weights",
                             count |-> last_op.count + 1, raised |-> FALSE]
    /\ UNCHANGED <<weights_file, sg_weights, opt_weights, call>>
    /\ UNCHANGED <<dm_vars, cycle_vars, app_vars, svc_vars>>

NextWeights ==
    \/ SgLoadWeights
    \/ OptLoadWeights
    \/ Optimize
    \/ QuickOptimize
    \/ UpdateStrategyWeights

SpecWeights == InitWeights /\ [][NextWeights]_vars

\* the Weight Maps the components hold
HeldMaps == {Deref(sg_weights), Deref(opt_weights), Deref(config_weights)}

\* C5 (weight normalization): after any sequence of weight loads and weight
\* updates, the Weight Map held by each component sums to 1.0.
C5_WeightsNormalized == \A w \in HeldMaps : WeightTotal(w) = RInt(1)

\* the updates that end with a normalisation do leave the optimizer and the
\* configuration with a map of sum 1
NormalizedAfterUpdate ==
    /\ (last_op.op = "optimize" /\ last_op.reached_save)
           => WeightTotal(Deref(opt_weights)) = RInt(1)
    /\ (last_op.op = "quick_optimize" /\ last_op.adjusted)
           => WeightTotal(Deref(opt_weights)) = RInt(1)

\* C7 (persistence errors are recovered): a load_weights that cannot read the
\* weight file yields the configured default weights; when the weight file
\* cannot be written, save_weights does not raise and optimize still runs
\* its remaining steps: saving the performance history, optimizing the risk
\* parameters, reporting.
C7_PersistenceRecovered ==
    /\ (last_op.op = "load_weights" /\ ~last_op.readable)
           => last_op.loaded = last_op.defaults
    /\ (last_op.op = "optimize" /\ last_op.reached_save /\ ~last_op.write_ok)
           => /\ ~last_op.raised
              /\ last_op.steps = <<"save_weights", "save_performance_history",
                                   "optimize_risk_parameters", "report">>

\* an optimize whose write failed, with weights that every load_weights so
\* far took from the defaults because the file is unreadable
C7_Witness ==
    /\ last_op.op = "optimize"
    /\ last_op.reached_save
    /\ ~last_op.write_ok
    /\ ~Readable(weights_file)

\* C6 (partial weight file): when the weight file parses but lacks one of the
\* configured strategy keys, the aggregation uses the complete configured
\* default Weight Map, not the partial map read from disk.
C6_PartialFileDefaults ==
    (/\ Synthesized
     /\ Readable(weights_file)
     /\ \E k \in DOMAIN STRATEGY_WEIGHTS : k \notin DOMAIN weights_file)
        => /\ Deref(sg_weights) = STRATEGY_WEIGHTS
           /\ call.result = synthesize_deep_analysis(STRATEGY_WEIGHTS, call.in,
                                                     call.htf_context, FullFrame.close,
                                                     call.timeframe)

(***************************************************************************)
(* main.py: the scheduled analysis job, analyze_and_signal and the bot      *)
(* (specification SpecMain)                                                 *)
(***************************************************************************)
\* a job that may run twice at a time
max_instances_two == 1 + 1

\* add_job(self.analyze_and_signal, 'interval', minutes=5, max_instances=1)
max_instances == 1

\* the values generate_enhanced_signal returns with the Weight Map w: None,
\* or the analysis of one timeframe that met the threshold, with its risk
\* parameters
GeneratorReturns(w) ==
    LET analyses == {synthesize_deep_analysis(w, DeepLayers(FullFrame, facts),
                                              HtfContext(facts.trend), FullFrame.close,
                                              TIMEFRAMES[i]) :
                        facts \in CycleFacts, i \in 1..Len(TIMEFRAMES)}
    IN {None} \cup {calculate_enhanced_risk_parameters(a) :
                       a \in {r \in analyses : r # None /\ MeetsThreshold(r.score)}}

\* self.signal_generator.generate_signal(): the generator defines
\* generate_enhanced_signal and no generate_signal, so the attribute lookup
\* raises AttributeError whatever the generator has for the cycle
generate_signal(generated) == Raised

\* TradingBot.send_message: one call of the Telegram API; its exception is
\* caught and logged
send_message == <<"send_message">>

\* the slots with a running instance of the analysis job
Running == {slot \in 1..JobSlots : jobs[slot] # None}

\* an instance at the first statement of analyze_and_signal
NewInstance == [pc |-> "market", generated |-> None, send_signal_calls |-> 0,
                outbound |-> <<>>, delivered |-> <<>>]

\* the interval trigger fires: the executor starts an instance unless
\* max_instances of them are running, and then skips the run
Trigger ==
    /\ IF Cardinality(Running) < max_instances /\ Running # 1..JobSlots
       THEN LET slot == CHOOSE s \in (1..JobSlots) \ Running :
                           \A t \in (1..JobSlots) \ Running : s <= t
            IN /\ jobs' = [jobs EXCEPT ![slot] = NewInstance]
               /\ missed' = FALSE
       ELSE /\ missed' = TRUE
            /\ UNCHANGED jobs
    /\ UNCHANGED <<trade_counter, trades>>
    /\ UNCHANGED <<weight_vars, dm_vars, cycle_vars, aux_vars, svc_vars>>

\* lines 143-149: the market is closed on Saturday and on Sunday before 22h
CheckMarket(slot) ==
    /\ jobs[slot] # None
    /\ jobs[slot].pc = "market"
    /\ \E is_market_open \in BOOLEAN :
         jobs' = [jobs EXCEPT ![slot].pc = IF is_market_open THEN "analysis" ELSE "done"]
    /\ UNCHANGED <<missed, trade_counter, trades>>
    /\ UNCHANGED <<weight_vars, dm_vars, cycle_vars, aux_vars, svc_vars>>

\* line 152 and the handler of lines 178-181.  generated: what the signal
\* generator has for the candle windows of this cycle; the call raises, so
\* lines 154-176 (send_signal, record_signal, quick_learn) do not run and
\* the handler sends the error text to the chat.  delivered: the Telegram
\* API accepted the message
RunAnalysis(slot) ==
    /\ jobs[slot] # None
    /\ jobs[slot].pc = "analysis"
    /\ \E generated \in GeneratorReturns(Deref(sg_weights)), delivered \in BOOLEAN :
         LET signal == generate_signal(generated)
         IN /\ signal = Raised
            /\ jobs' = [jobs EXCEPT ![slot] =
                           [pc |-> "done", generated |-> generated,
                            send_signal_calls |-> 0,
                            outbound |-> send_message,
                            delivered |-> <<delivered>>]]
    /\ UNCHANGED <<missed, trade_counter, trades>>
    /\ UNCHANGED <<weight_vars, dm_vars, cycle_vars, aux_vars, svc_vars>>

\* the coroutine returns and the executor releases the instance
Finish(slot) ==
    /\ jobs[slot] # None
    /\ jobs[slot].pc = "done"
    /\ jobs' = [jobs EXCEPT ![slot] = None]
    /\ UNCHANGED <<missed, trade_counter, trades>>
    /\ UNCHANGED <<weight_vars, dm_vars, cycle_vars, aux_vars, svc_vars>>

InitMain ==
    /\ WeightsInit({None, HalvesFile})
    /\ DmInit
    /\ CycleInit
    /\ AppInit
    /\ SvcInit
    /\ call = None

NextMain ==
    \/ UpdateFetch
    \/ UpdateSetTime
    \/ UpdateSetSource
    \/ UpdateSleep
    \/ Trigger
    \/ \E slot \in 1..JobSlots : CheckMarket(slot)
    \/ \E slot \in 1..JobSlots : RunAnalysis(slot)
    \/ \E slot \in 1..JobSlots : Finish(slot)

SpecMain == InitMain /\ [][NextMain]_vars

\* the instances whose analyze_and_signal has come to its end
Ended == {slot \in Running : jobs[slot].pc = "done"}

\* C11 (exactly-one notification): a cycle for which the signal generator has
\* a Signal ends with exactly one send_signal call that made exactly one
\* send_photo or send_message call.
C11_ExactlyOneNotification ==
    \A slot \in Ended :
        jobs[slot].generated # None =>
            /\ jobs[slot].send_signal_calls = 1
            /\ Len(jobs[slot].outbound) = 1
            /\ jobs[slot].outbound[1] \in {"send_photo", "send_message"}

\* C12 (silent absence): a cycle that ends without having sent a Signal
\* (market closed, no candidate, or a failed analysis) has sent nothing to
\* the chat.
C12_SilentAbsence ==
    \A slot \in Ended :
        jobs[slot].send_signal_calls = 0 => jobs[slot].outbound = <<>>

\* C13 (non-overlapping cycles): at most one instance of analyze_and_signal
\* is in flight, also when the trigger fires while a cycle is still running.
C13_NonOverlappingCycles == Cardinality(Running) <= 1

\* the trigger fired while a cycle was in flight, and the run was skipped
C13_Witness ==
    /\ missed
    /\ Cardinality(Running) = 1

(***************************************************************************)
(* learning/performance_tracker.py and the readers of the trade records     *)
(* (specification SpecTracker)                                              *)
(***************************************************************************)
\* how many trade records a run creates
MaxTrades == 2

\* a record_signal that books the trade as closed with a profit
record_signal_closed(records, signal) ==
    Append(records, [id |-> Len(records) + 1, direction |-> signal.direction,
                     entry |-> signal.entry, score |-> signal.score,
                     timeframe |-> signal.timeframe,
                     status |-> "closed", pnl |-> [usd |-> 1]])

\* PerformanceTracker.record_signal: self.trades.append(trade); of the
\* fields copied from the Signal, those of the aggregator are kept
record_signal(records, signal) ==
    Append(records, [id |-> Len(records) + 1, direction |-> signal.direction,
                     entry |-> signal.entry, score |-> signal.score,
                     timeframe |-> signal.timeframe,
                     status |-> "open", pnl |-> None])

\* t.get('status') == 'closed'
IsClosed(t) == t.status = "closed"

\* t.get('pnl', 0) > 0, for a pnl that is a number
IsWin(t) == t.pnl # None /\ t.pnl.usd > 0

\* the win rate of both reports: 0 without closed trades, else the share of
\* the closed trades with pnl > 0, in percent; None > 0 raises TypeError
WinRate(records) ==
    LET closed_trades == SelectSeq(records, IsClosed)
        wins == SelectSeq(closed_trades, IsWin)
    IN IF Len(closed_trades) = 0 THEN RInt(0)
       ELSE IF \E i \in 1..Len(closed_trades) : closed_trades[i].pnl = None THEN Raised
       ELSE RMul(Rat(Len(wins), Len(closed_trades)), RInt(100))

\* PerformanceTracker.get_current_stats
get_current_stats(records) ==
    [total_trades |-> Len(records), win_rate |-> WinRate(records)]

\* StrategyOptimizer.calculate_overall_winrate, on the tracker of the optimizer
calculate_overall_winrate(records) == WinRate(records)

\* the Signals handed to record_signal: those of the first timeframe
RecordedSignals(w) ==
    {signal \in GeneratorReturns(w) \ {None} : signal.timeframe = "M" \o TIMEFRAMES[1]}

InitTracker ==
    /\ WeightsInit({None, HalvesFile})
    /\ DmInit
    /\ CycleInit
    /\ AppInit
    /\ SvcInit
    /\ call = None

\* record_signal on the tracker of the system, with its save_data (write_ok:
\* data/trades.json can be written; the error is logged)
RecordSignal ==
    /\ Len(trades.system) < MaxTrades
    /\ \E signal \in RecordedSignals(Deref(sg_weights)), write_ok \in BOOLEAN :
         LET recorded == record_signal(trades.system, signal)
         IN trades' = [trades EXCEPT !.system = recorded,
                                     !.file = IF write_ok THEN recorded ELSE @]
    /\ UNCHANGED <<jobs, missed, trade_counter>>
    /\ UNCHANGED <<weight_vars, dm_vars, cycle_vars, aux_vars, svc_vars>>

\* the reports: get_current_stats of the system's tracker (hourly update,
\* daily report, quick_learn), of a tracker the bot builds from the file for
\* /stats, and calculate_overall_winrate of the optimizer
Report ==
    /\ \E fn \in {"get_current_stats", "stats_command", "calculate_overall_winrate"} :
         call' = [fn |-> fn, state |-> "returned",
                  result |-> CASE fn = "get_current_stats" ->
                                      get_current_stats(trades.system)
                               [] fn = "stats_command" ->
                                      get_current_stats(trades.file)
                               [] OTHER ->
                                      [total_trades |-> Len(trades.optimizer),
                                       win_rate |-> calculate_overall_winrate(trades.optimizer)]]
    /\ UNCHANGED <<opt_weights, last_op>>
    /\ UNCHANGED <<weight_vars, dm_vars, cycle_vars, app_vars, svc_vars>>

\* the process is started again: every tracker loads data/trades.json
Restart ==
    /\ trades' = [system |-> trades.file, optimizer |-> trades.file, file |-> trades.file]
    /\ trade_counter' = 0
    /\ UNCHANGED <<jobs, missed>>
    /\ UNCHANGED <<weight_vars, dm_vars, cycle_vars, aux_vars, svc_vars>>

\* t.get('triggered_strategies', []): record_signal stores no such key
triggered_strategies(t) == {}

\* strategy in t.get('triggered_strategies', [])
IsProfiled(t) == ProfiledStrategy \in triggered_strategies(t)

RECURSIVE SumPnl(_)
SumPnl(records) ==
    IF records = <<>> THEN 0 ELSE Head(records).pnl.usd + SumPnl(Tail(records))

\* analyze_strategy_performance on the trades of the profiled strategy:
\* t.get('pnl', 0) > 0 raises TypeError on a pnl of None
AnalysisOk(records) ==
    \A i \in 1..Len(records) : IsProfiled(records[i]) => records[i].pnl # None

\* the performance class optimize puts the profiled strategy in
PerformanceBand(records) ==
    LET strategy_trades == SelectSeq(records, IsProfiled)
        wins == SelectSeq(strategy_trades, IsWin)
        n == Len(strategy_trades)
    IN IF n < 5 THEN "few"
       ELSE IF Len(wins) * 100 >= 80 * n THEN "super"
       ELSE IF Len(wins) * 100 >= 70 * n THEN "good"
       ELSE IF Len(wins) * 100 >= 60 * n THEN "average"
       ELSE IF Len(wins) * 100 >= 50 * n THEN "poor"
       ELSE "bad"

\* avg_profit > 50: the mean pnl of the winning trades of the strategy
ProfitBonus(records) ==
    LET wins == SelectSeq(SelectSeq(records, IsProfiled), IsWin)
    IN Len(wins) > 0 /\ SumPnl(wins) > 50 * Len(wins)

\* self.tracker.trades[-20:]
RecentTrades(records) ==
    IF Len(records) <= 20 THEN records
    ELSE SubSeq(records, Len(records) - 19, Len(records))

\* the move quick_optimize makes for the profiled strategy
QuickMove(records) ==
    LET strategy_trades == SelectSeq(RecentTrades(records), IsProfiled)
        wins == SelectSeq(strategy_trades, IsWin)
        n == Len(strategy_trades)
    IN IF n < 2 THEN "none"
       ELSE IF Len(wins) * 100 >= 75 * n THEN "up"
       ELSE IF Len(wins) * 100 <= 25 * n THEN "down"
       ELSE "none"

\* optimize on the trades of the optimizer's tracker
OptimizeRecorded ==
    \E write_ok \in BOOLEAN :
        OptimizeWith(AnalysisOk(trades.optimizer), PerformanceBand(trades.optimizer),
                     ProfitBonus(trades.optimizer), write_ok)

\* quick_optimize on the trades of the optimizer's tracker
QuickOptimizeRecorded ==
    \E write_ok \in BOOLEAN :
        QuickOptimizeWith(Len(RecentTrades(trades.optimizer)) >= 5,
                          QuickMove(trades.optimizer), write_ok)

NextTracker ==
    \/ RecordSignal
    \/ Report
    \/ Restart
    \/ OptimizeRecorded
    \/ QuickOptimizeRecorded

SpecTracker == InitTracker /\ [][NextTracker]_vars

\* the trade records of the two trackers and of the file
AllTrades ==
    {trades.system[i] : i \in 1..Len(trades.system)}
        \cup {trades.optimizer[i] : i \in 1..Len(trades.optimizer)}
        \cup {trades.file[i] : i \in 1..Len(trades.file)}

\* C14 (trade records stay open): every Trade Record, in memory or on file,
\* has status 'open' and no pnl in every state under signal recording,
\* optimization, reports and restarts, and every reported win rate is 0.
C14_TradeRecordsStayOpen ==
    /\ \A t \in AllTrades : t.status = "open" /\ t.pnl = None
    /\ get_current_stats(trades.system).win_rate = RInt(0)
    /\ calculate_overall_winrate(trades.optimizer) = RInt(0)
    /\ (call # None /\ call.fn \in {"get_current_stats", "stats_command",
                                    "calculate_overall_winrate"})
           => call.result.win_rate = RInt(0)

\* a report made after an optimization, with two records in the tracker of
\* the optimizer
C14_Witness ==
    /\ Len(trades.optimizer) = MaxTrades
    /\ last_op.op \in {"optimize", "quick_optimize"}
    /\ call # None
    /\ call.fn = "calculate_overall_winrate"
    /\ call.result.total_trades = MaxTrades

(***************************************************************************)
(* The reasons of a Signal (specification SpecAgg)                          *)
(***************************************************************************)
\* C15 (contributing reasons): a returned Signal carries at most 5 reasons,
\* in evaluation order, and each of them comes from a layer that voted for
\* the direction of the Signal.
C15_ContributingReasons ==
    (Synthesized /\ call.result # None) =>
        /\ Len(call.result.reasons) <= 5
        /\ call.result.reasons = Top5(EnhancedReasons(call.in, call.htf_context))
        /\ \A i \in 1..Len(call.result.reasons) :
               call.result.reasons[i].direction = call.result.direction

(***************************************************************************)
(* _perform_deep_analysis, run twice on one frame                           *)
(* (specification SpecReeval)                                               *)
(***************************************************************************)
\* an add_indicators that joins the indicator columns to the frame: the join
\* fails on a frame that already has them and leaves a malformed frame
add_indicators_join(df) ==
    IF df.indicators THEN [df EXCEPT !.cols = FALSE]
    ELSE [df EXCEPT !.indicators = TRUE]

\* TechnicalAnalysis.add_indicators: df['ema_20'] = ... assigns the indicator
\* columns on the frame it was given, overwriting those already there
add_indicators(df) == [df EXCEPT !.indicators = TRUE]

\* _perform_deep_analysis on the frame df: the frame as the call leaves it
\* and the value returned
perform_deep_analysis(weights, df, facts, htf_context, timeframe) ==
    LET frame == add_indicators(df)
    IN [df |-> frame,
        result |-> synthesize_deep_analysis(weights, DeepLayers(frame, facts),
                                            htf_context, frame.close, timeframe)]

\* a frame of get_data, not yet annotated, and the facts of its candles
InitReeval ==
    /\ WeightsInit({None, HalvesFile})
    /\ DmInit
    /\ CycleInit
    /\ AppInit
    /\ SvcInit
    /\ \E facts \in AggFacts :
         call = [fn |-> "_perform_deep_analysis",
                 df |-> [len |-> FullFrame.len, cols |-> TRUE, vol |-> TRUE,
                         close |-> FullFrame.close, indicators |-> FALSE],
                 facts |-> facts,
                 timeframe |-> TIMEFRAMES[1],
                 results |-> <<>>,
                 contexts |-> <<>>]

\* one evaluation of the frame, with the get_data of the higher timeframe
Reevaluate ==
    /\ call # None
    /\ call.fn = "_perform_deep_analysis"
    /\ Len(call.results) < 2
    /\ \E htf_fetch \in SyncOutcomes(current_price) :
         LET htf_data == get_data(200, current_price, last_update, active_source, htf_fetch)
             htf_context == higher_timeframe_context(htf_data, call.facts.trend)
             done == perform_deep_analysis(Deref(sg_weights), call.df, call.facts,
                                           htf_context, call.timeframe)
         IN /\ call' = [call EXCEPT !.df = done.df,
                                    !.results = Append(@, done.result),
                                    !.contexts = Append(@, htf_context)]
            /\ current_price' = htf_data.current_price
            /\ last_update' = htf_data.last_update
            /\ active_source' = htf_data.active_source
    /\ UNCHANGED update_thread
    /\ UNCHANGED <<weight_vars, cycle_vars, opt_weights, last_op, app_vars, svc_vars>>

NextReeval == Reevaluate

SpecReeval == InitReeval /\ [][NextReeval]_vars

\* the frame has been evaluated twice
EvaluatedTwice ==
    /\ call # None
    /\ call.fn = "_perform_deep_analysis"
    /\ Len(call.results) = 2

WeightSteps == {Rat(1, 100), Rat(1, 2)}

\* self.weights[strategy] = self.weights.get(strategy, 0.1) + step
RaisedWeights(weights, strategy, step) ==
    [k \in DOMAIN weights \cup {strategy} |->
        IF k = strategy THEN RAdd(WeightOf(weights, strategy), step) ELSE weights[k]]

\* what the opinion of the strategy adds to the accumulator of its side
Contribution(weights, strategy_results, strategy) ==
    IF strategy_results[strategy].direction \in {"BUY", "SELL"}
    THEN RMul(RInt(strategy_results[strategy].score), WeightOf(weights, strategy))
    ELSE RInt(0)

\* the accumulators and the contribution of the strategy under a Weight Map
Accumulators(weights, in, htf_context, strategy) ==
    [buy_score |-> DirectionScore(weights, in, htf_context, "BUY"),
     sell_score |-> DirectionScore(weights, in, htf_context, "SELL"),
     contribution |-> Contribution(weights, in.strategy_results, strategy)]

InitWeightStep ==
    /\ WeightsInit({None, HalvesFile, UnnormalizedFile})
    /\ DmInit
    /\ CycleInit
    /\ AppInit
    /\ SvcInit
    /\ \E facts \in CycleFacts, strategy \in Strategies, step \in WeightSteps :
         call = [fn |-> "accumulate",
                 in |-> DeepLayers(FullFrame, facts),
                 htf_context |-> HtfContext(facts.trend),
                 strategy |-> strategy,
                 step |-> step,
                 state |-> "called"]

\* steps 1 to 5 of _synthesize_deep_analysis on the same opinions, under the
\* Weight Map of the generator and under the map with one weight raised
AccumulateBoth ==
    /\ call # None
    /\ call.fn = "accumulate"
    /\ call.state = "called"
    /\ LET weights == Deref(sg_weights)
           raised == RaisedWeights(weights, call.strategy, call.step)
       IN call' = [fn |-> call.fn, in |-> call.in, htf_context |-> call.htf_context,
                   strategy |-> call.strategy, step |-> call.step,
                   state |-> "returned",
                   before |-> Accumulators(weights, call.in, call.htf_context, call.strategy),
                   after |-> Accumulators(raised, call.in, call.htf_context, call.strategy)]
    /\ UNCHANGED <<weight_vars, dm_vars, cycle_vars, opt_weights, last_op, app_vars, svc_vars>>

NextWeightStep == AccumulateBoth

SpecWeightStep == InitWeightStep /\ [][NextWeightStep]_vars

Accumulated == call # None /\ call.fn = "accumulate" /\ call.state = "returned"

\* C17 (aggregator monotonicity): with the opinions fixed, raising the weight
\* of one strategy lowers neither the contribution of that strategy nor the
\* buy_score or the sell_score.
C17_AggregatorMonotonicity ==
    Accumulated =>
        /\ RGe(call.after.contribution, call.before.contribution)
        /\ RGe(call.after.buy_score, call.before.buy_score)
        /\ RGe(call.after.sell_score, call.before.sell_score)

\* the weight of a voting strategy was raised, and its side's score grew
C17_Witness ==
    /\ Accumulated
    /\ call.in.strategy_results[call.strategy].direction = "BUY"
    /\ RGt(call.after.contribution, call.before.contribution)
    /\ RGt(call.after.buy_score, call.before.buy_score)

(***************************************************************************)
(* One iteration of the loop of generate_enhanced_signal on a window of any *)
(* length (specification SpecWindow)                                        *)
(***************************************************************************)
\* the lengths of the windows handed to the iteration
ShortWindowLengths == {5, 60, 199, 200, 1200}

\* the bars below which a heuristic answers NEUTRAL for want of history
Lookback ==
    [name \in Strategies |->
        CASE name = "bollinger"          -> 20
          [] name = "support_resistance" -> 100
          [] name = "smc"                -> 200
          [] name = "price_action"       -> 100
          [] name = "patterns"           -> 200
          [] name = "candlesticks"       -> 10
          [] name = "fvg"                -> 50
          [] name = "trend_momentum"     -> 100
          [] name = "market_structure"   -> 200
          [] OTHER                       -> 0]

InitWindow ==
    /\ WeightsInit({None, HalvesFile})
    /\ DmInit
    /\ CycleInit
    /\ AppInit
    /\ SvcInit
    /\ \E len \in ShortWindowLengths, facts \in CycleFacts :
         call = [fn |-> "loop_iteration",
                 df |-> [len |-> len, cols |-> TRUE, vol |-> TRUE,
                         close |-> FullFrame.close, indicators |-> FALSE],
                 facts |-> facts,
                 state |-> "called"]

\* lines 61-78 on the window df_deep: the test of line 66, then
\* _perform_deep_analysis.  opinions: what the heuristics answer on the
\* window; aggregated: _perform_deep_analysis ran
IterateWindow ==
    /\ call # None
    /\ call.fn = "loop_iteration"
    /\ call.state = "called"
    /\ LET skipped == InsufficientData(call.df)
           done == perform_deep_analysis(Deref(sg_weights), call.df, call.facts,
                                         HtfContext(call.facts.trend), TIMEFRAMES[1])
       IN call' = [fn |-> call.fn, df |-> call.df, facts |-> call.facts,
                   state |-> "returned",
                   opinions |-> analyze(Window(call.df, call.facts)),
                   aggregated |-> ~skipped,
                   analysis_result |-> IF skipped THEN None ELSE done.result]
    /\ UNCHANGED <<weight_vars, dm_vars, cycle_vars, opt_weights, last_op, app_vars, svc_vars>>

NextWindow == IterateWindow

SpecWindow == InitWindow /\ [][NextWindow]_vars

Iterated == call # None /\ call.fn = "loop_iteration" /\ call.state = "returned"

\* the heuristics the window is too short for
LackingHistory == {name \in Strategies : call.df.len < Lookback[name]}

\* the heuristics without history answer NEUTRAL with score 0
ShortAnswersNeutral ==
    \A name \in LackingHistory :
        /\ call.opinions[name].direction = "NEUTRAL"
        /\ call.opinions[name].score = 0

health_check(cp, lu, src) ==
    [status |-> IF cp # None THEN "HEALTHY" ELSE "CRITICAL",
     current_price |-> cp,
     active_source |-> src,
     aged |-> lu # None]

InitPrice ==
    /\ WeightsInit({None, HalvesFile})
    /\ DmInit
    /\ CycleInit
    /\ AppInit
    /\ SvcInit
    /\ call = None

\* a caller of get_current_price; the immediate sync writes the cache
GetCurrentPrice ==
    /\ \E fetch \in SyncOutcomes(current_price) :
         LET p == get_current_price(current_price, last_update, active_source, fetch)
         IN /\ call' = [fn |-> "get_current_price", raised |-> p.raised,
                        price |-> p.price, fallback |-> p.fallback]
            /\ current_price' = p.current_price
            /\ last_update' = p.last_update
            /\ active_source' = p.active_source
    /\ UNCHANGED update_thread
    /\ UNCHANGED <<weight_vars, cycle_vars, opt_weights, last_op, app_vars, svc_vars>>

\* a caller of health_check
HealthCheck ==
    /\ call' = [fn |-> "health_check", raised |-> FALSE,
                result |-> health_check(current_price, last_update, active_source)]
    /\ UNCHANGED <<weight_vars, dm_vars, cycle_vars, opt_weights, last_op, app_vars, svc_vars>>

NextPrice ==
    \/ UpdateFetch
    \/ UpdateSetTime
    \/ UpdateSetSource
    \/ UpdateSleep
    \/ GetCurrentPrice
    \/ HealthCheck

SpecPrice == InitPrice /\ [][NextPrice]_vars

\* C19 (price cache consistency): in every state of the update thread
\* interleaved with the readers, a cached price comes with its last_update
\* and its source, and no get_current_price fails on the price age.
C19_PriceCacheConsistent ==
    /\ current_price # None => (last_update # None /\ active_source # "unknown")
    /\ (call # None /\ call.fn = "get_current_price") => ~call.raised

\* a price of the validated spot range, which lies in the range of the test
InSpotRange(price) ==
    /\ 3340 <= price.usd /\ price.usd <= 3380
    /\ 3300 <= price.usd /\ price.usd <= 3400

\* the step of a pass in which no source gave a valid price
FailedPass == update_thread.pc = "fetch" /\ update_thread'.pc = "sleep"

\* C20 (validated price range): the cached price is unset or within 3340 to
\* 3380, every price get_current_price returns is within that range, and a
\* pass of the update loop without a valid price leaves current_price,
\* last_update and active_source as they were.
C20_ValidatedPriceRange ==
    /\ [](/\ current_price # None => InSpotRange(current_price)
          /\ (call # None /\ call.fn = "get_current_price" /\ ~call.raised)
                 => InSpotRange(call.price))
    /\ [][FailedPass => UNCHANGED <<current_price, last_update, active_source>>]_vars

\* get_current_price returned the cached price of an earlier pass, and the
\* thread sleeps after a pass that found no valid price
C20_Witness ==
    /\ call # None
    /\ call.fn = "get_current_price"
    /\ ~call.raised
    /\ ~call.fallback
    /\ call.price = current_price
    /\ last_update # None
    /\ update_thread.pc = "sleep"
    /\ active_source = professional_sources[4]

(***************************************************************************)
(* Stopping and restarting the live updates (specification SpecLife).  A    *)
(* Thread object is "test" at the while condition of line 82, "run" inside  *)
(* the loop body (pass over the sources and sleep) and "exited" once the    *)
(* condition was false.  self.update_thread is the last Thread created.     *)
(* The statement-level interleaving of the three cache writes is the        *)
(* subject of Spec and SpecPrice; here a pass writes the cache in one step. *)
(***************************************************************************)
\* how many Thread objects start_professional_updates may create
MaxThreads == 3

\* Thread.is_alive() of self.update_thread
is_alive(ths) == ths[Len(ths)] # "exited"

\* the Thread objects whose loop has not returned
AliveThreads(ths) == {i \in 1..Len(ths) : ths[i] # "exited"}

\* start_professional_updates: a new Thread only if the last one is dead
start_professional_updates(active, ths) ==
    IF ~is_alive(ths)
    THEN [live_update_active |-> TRUE, threads |-> Append(ths, "test")]
    ELSE [live_update_active |-> active, threads |-> ths]

\* the caller is not inside get_current_price
CallerIdle == IF call = None THEN TRUE ELSE call.pc = "returned"

InitLife ==
    /\ WeightsInit({None, HalvesFile})
    /\ DmInit
    /\ CycleInit
    /\ AppInit
    /\ live_update_active = TRUE
    /\ threads = <<"test">>
    /\ news = None
    /\ call = None

\* line 82: while self.live_update_active
ThreadTest(i) ==
    /\ threads[i] = "test"
    /\ threads' = [threads EXCEPT ![i] = IF live_update_active THEN "run" ELSE "exited"]
    /\ UNCHANGED <<live_update_active, news>>
    /\ UNCHANGED <<weight_vars, dm_vars, cycle_vars, aux_vars, app_vars>>

\* lines 83-102: one pass over the sources, then time.sleep(1)
ThreadPass(i) ==
    /\ threads[i] = "run"
    /\ threads' = [threads EXCEPT ![i] = "test"]
    /\ \E fetch \in FetchOutcomes :
         LET hit == FirstValid(fetch, Len(professional_sources))
         IN IF hit # None
            THEN /\ current_price' = [usd |-> hit.price]
                 /\ last_update' = [set |-> TRUE]
                 /\ active_source' = professional_sources[hit.source]
            ELSE UNCHANGED <<current_price, last_update, active_source>>
    /\ UNCHANGED <<update_thread, live_update_active, news>>
    /\ UNCHANGED <<weight_vars, cycle_vars, aux_vars, app_vars>>

\* stop_professional_updates, called between two calls of get_current_price
StopUpdates ==
    /\ CallerIdle
    /\ live_update_active
    /\ live_update_active' = FALSE
    /\ UNCHANGED <<threads, news>>
    /\ UNCHANGED <<weight_vars, dm_vars, cycle_vars, aux_vars, app_vars>>

\* get_current_price, lines 527-530: the check of the live updates, the
\* restart, and the entry into time.sleep(2)
GetPriceEnter ==
    /\ CallerIdle
    /\ Len(threads) < MaxThreads
    /\ LET restart == ~live_update_active \/ ~is_alive(threads)
           started == start_professional_updates(live_update_active, threads)
       IN /\ live_update_active' = IF restart THEN started.live_update_active
                                   ELSE live_update_active
          /\ threads' = IF restart THEN started.threads ELSE threads
          /\ call' = [fn |-> "get_current_price", pc |-> "sleep",
                      stopped |-> ~live_update_active,
                      old_alive |-> is_alive(threads)]
    /\ UNCHANGED news
    /\ UNCHANGED <<weight_vars, dm_vars, cycle_vars, opt_weights, last_op, app_vars>>

\* get_current_price, lines 532-553, after the sleep if there was one
GetPriceReturn ==
    /\ call # None /\ call.pc = "sleep"
    /\ \E fetch \in SyncOutcomes(current_price) :
         LET p == get_current_price(current_price, last_update, active_source, fetch)
         IN /\ call' = [call EXCEPT !.pc = "returned"]
            /\ current_price' = p.current_price
            /\ last_update' = p.last_update
            /\ active_source' = p.active_source
    /\ UNCHANGED <<update_thread, live_update_active, threads, news>>
    /\ UNCHANGED <<weight_vars, cycle_vars, opt_weights, last_op, app_vars>>

NextLife ==
    \/ \E i \in 1..MaxThreads : i <= Len(threads) /\ ThreadTest(i)
    \/ \E i \in 1..MaxThreads : i <= Len(threads) /\ ThreadPass(i)
    \/ StopUpdates
    \/ GetPriceEnter
    \/ GetPriceReturn

SpecLife == InitLife /\ [][NextLife]_vars

\* the step in which a call of get_current_price made after a stop returns
ReturnsAfterStop ==
    /\ call # None /\ call.pc = "sleep" /\ call.stopped
    /\ call'.pc = "returned"

\* C21 (restart after stop): a call of get_current_price made after
\* stop_professional_updates returns with live_update_active true and exactly
\* one update thread alive, whether or not the old thread had exited when the
\* call was made; and never are two update threads alive together.
C21_RestartAfterStop ==
    /\ [][ReturnsAfterStop =>
            /\ live_update_active'
            /\ Cardinality(AliveThreads(threads')) = 1]_vars
    /\ [](Cardinality(AliveThreads(threads)) <= 1)

(***************************************************************************)
(* The trade history the optimizer learns from (specification SpecTracker)  *)
(***************************************************************************)
\* a step of optimize or quick_optimize
Learns == last_op'.count = last_op.count + 1

\* the records of the system's tracker that the tracker of the optimizer
\* does not hold
UnseenTrades ==
    {i \in 1..Len(trades.system) :
        \A j \in 1..Len(trades.optimizer) : trades.optimizer[j] # trades.system[i]}

\* C22 (learning sees new trades): whenever optimize or quick_optimize runs,
\* every Trade Record the system's tracker has appended so far is in the
\* trade history that the run analyses.
C22_LearningSeesNewTrades == [][Learns => UnseenTrades = {}]_vars

(***************************************************************************)
(* One call of calculate_enhanced_risk_parameters (specification SpecRisk)  *)
(***************************************************************************)
\* scores on both sides of every bound of _calculate_dynamic_sl
RiskScores ==
    {RInt(25), Rat(749, 10), RInt(75), Rat(799, 10), RInt(80), RInt(85),
     Rat(899, 10), RInt(90), RInt(130)}

\* Signals with the keys kept of the aggregator's Signal (its symbol is
\* config.PRIMARY_SYMBOL, which is also the default of signal.get), and
\* Signals that name one of the two configured symbols
RiskInputs ==
    LET plain(entries) ==
            [direction : {"BUY", "SELL"}, entry : entries, score : RiskScores,
             timeframe : {"M15"}, reasons : {<<>>}]
        named(symbol, entries) == {[symbol |-> symbol] @@ s : s \in plain(entries)}
    IN plain({3340, FallbackPrice, 3380})
           \cup named("XAUUSD", {FallbackPrice})
           \cup named("BTCUSD", {30000, 60000})

InitRisk ==
    /\ WeightsInit({None})
    /\ DmInit
    /\ CycleInit
    /\ AppInit
    /\ SvcInit
    /\ call \in [fn : {"calculate_enhanced_risk_parameters"}, in : RiskInputs,
                 state : {"called"}]

CalculateRisk ==
    /\ call.state = "called"
    /\ call' = [fn |-> call.fn, in |-> call.in, state |-> "returned",
                result |-> calculate_enhanced_risk_parameters(call.in)]
    /\ UNCHANGED <<weight_vars, dm_vars, cycle_vars, opt_weights, last_op, app_vars, svc_vars>>

NextRisk == CalculateRisk

SpecRisk == InitRisk /\ [][NextRisk]_vars

RiskReturned == call.state = "returned"

\* |sl - entry| of a returned Signal
StopDistance(signal) == RAbs(RSub(signal.sl, RInt(signal.entry)))

\* C23 (risk levels are well ordered): a returned BUY has
\* sl < entry < tp1 < tp2 < tp3 < tp4, a returned SELL has
\* sl > entry > tp1 > tp2 > tp3 > tp4, and the stop distance lies between
\* min_distance and max_sl of the symbol of the Signal, for every score.
C23_RiskLevelsOrdered ==
    RiskReturned =>
        LET s == call.result
            levels == <<s.sl, RInt(s.entry), s.tp1, s.tp2, s.tp3, s.tp4>>
            symbol_config == SymbolConfig(SymbolOf(s))
        IN /\ s.direction = "BUY" => \A i \in 1..5 : RLt(levels[i], levels[i + 1])
           /\ s.direction = "SELL" => \A i \in 1..5 : RGt(levels[i], levels[i + 1])
           /\ RLe(symbol_config.min_distance, StopDistance(s))
           /\ RLe(StopDistance(s), symbol_config.max_sl)

\* a weak SELL on gold got the widest stop, 12 above the entry
C23_Witness ==
    /\ RiskReturned
    /\ call.result.direction = "SELL"
    /\ call.result.score = RInt(25)
    /\ call.result.entry = FallbackPrice
    /\ call.result.sl = RInt(FallbackPrice + 12)
    /\ call.result.tp4 = RInt(FallbackPrice - 25)

\* the USD a position of one unit loses per USD of price: 100 oz per lot of
\* gold, 1 per BTC
ContractSize(signal) == IF SymbolOf(signal) = "BTCUSD" THEN 1 ELSE 100

\* C24 (reported loss matches the position): in a returned Signal,
\* max_loss_usd is the stop distance times the position_size of that Signal
\* times the contract size, and it is at most RISK_PERCENTAGE percent of the
\* account balance of 10000.
C24_LossMatchesPosition ==
    RiskReturned =>
        LET s == call.result
        IN /\ s.max_loss_usd =
                  RMul(RMul(StopDistance(s), s.position_size), RInt(ContractSize(s)))
           /\ RLe(s.max_loss_usd, RMul(RInt(10000), Rat(RISK_PERCENTAGE, 100)))

(***************************************************************************)
(* The scale of the score of an emitted Signal (specification SpecAgg)      *)
(***************************************************************************)
\* C25 (score scale): the score of every Signal that _synthesize_deep_analysis
\* returns lies between 0 and 100, for every combination of strategy
\* opinions, weights, S/R, pattern and volume bonuses and higher-timeframe
\* multiplier.
C25_ScoreScale ==
    (Synthesized /\ call.result # None) =>
        /\ RGe(call.result.score, RInt(0))
        /\ RLe(call.result.score, RInt(100))

(***************************************************************************)
(* main.py: the trade counter and the quick optimization check              *)
(* (specification SpecQuick).  The steps are the statements of              *)
(* analyze_and_signal for an accepted Signal (lines 154-171) and the job    *)
(* quick_optimize_check; the messages they send to the chat change no       *)
(* state.                                                                   *)
(***************************************************************************)
\* how far the trade counter runs
MaxCounter == 10

\* how many quick optimizations a run performs
MaxQuickOps == 4

\* a Signal at or above the score of 75 that line 154 asks for
AcceptedSignal ==
    calculate_enhanced_risk_parameters(
        [direction |-> "BUY", entry |-> FallbackPrice, score |-> RInt(80),
         timeframe |-> "M" \o TIMEFRAMES[1], reasons |-> <<>>])

RECURSIVE RecordAll(_, _)
RecordAll(records, n) ==
    IF n = 0 THEN records ELSE RecordAll(record_signal(records, AcceptedSignal), n - 1)

\* data/trades.json as the process finds it: empty, or with the five open
\* records of an earlier run
InitQuick ==
    /\ WeightsInit({None})
    /\ DmInit
    /\ CycleInit
    /\ SvcInit
    /\ jobs = [slot \in 1..JobSlots |-> None]
    /\ missed = FALSE
    /\ trade_counter = 0
    /\ \E history \in {<<>>, RecordAll(<<>>, 5)} :
         trades = [system |-> history, optimizer |-> history, file |-> history]
    /\ call = None

\* quick_optimize of the system's optimizer, on the trades of its tracker
QuickOptimizeTrades ==
    /\ last_op.count < MaxQuickOps
    /\ \E write_ok \in BOOLEAN :
         QuickOptimizeEffect(Len(RecentTrades(trades.optimizer)) >= 5,
                             QuickMove(trades.optimizer), write_ok)

\* lines 154-171 for an accepted Signal: the counter, record_signal with its
\* save_data, and quick_learn after every fifth trade, which optimizes when
\* the tracker holds at least 5 trades
AcceptSignal ==
    /\ trade_counter < MaxCounter
    /\ trade_counter' = trade_counter + 1
    /\ \E write_ok \in BOOLEAN :
         LET recorded == record_signal(trades.system, AcceptedSignal)
         IN /\ trades' = [trades EXCEPT !.system = recorded,
                                        !.file = IF write_ok THEN recorded ELSE @]
            /\ IF (trade_counter + 1) % 5 = 0
                  /\ get_current_stats(recorded).total_trades >= 5
               THEN QuickOptimizeTrades
               ELSE UNCHANGED <<weight_vars, opt_weights, last_op>>
    /\ UNCHANGED <<jobs, missed, call>>
    /\ UNCHANGED <<dm_vars, cycle_vars, svc_vars>>

\* the condition of lines 214-215
QuickOptimizeDue(counter, stats) ==
    \/ counter > 0 /\ counter % 10 = 0
    \/ RLt(stats.win_rate, RInt(60)) /\ stats.total_trades >= 5

\* quick_optimize_check, run by the scheduler every 30 minutes.  The call
\* keeps what this check and the check before it saw and did
QuickOptimizeCheck ==
    /\ LET due == QuickOptimizeDue(trade_counter, get_current_stats(trades.system))
       IN /\ call' = [fn |-> "quick_optimize_check", triggered |-> due,
                      trade_counter |-> trade_counter,
                      prior |-> IF call = None THEN None
                                ELSE [triggered |-> call.triggered,
                                      trade_counter |-> call.trade_counter]]
          /\ IF due THEN QuickOptimizeTrades
             ELSE UNCHANGED <<weight_vars, opt_weights, last_op>>
    /\ UNCHANGED <<dm_vars, cycle_vars, app_vars, svc_vars>>

NextQuick ==
    \/ AcceptSignal
    \/ QuickOptimizeCheck

SpecQuick == InitQuick /\ [][NextQuick]_vars

\* the check before the last one triggered at the same value of the counter
TriggeredBefore ==
    /\ call.prior # None
    /\ call.prior.triggered
    /\ call.prior.trade_counter = call.trade_counter

\* C26 (quick optimization cadence): a check triggers a quick optimization
\* exactly when trade_counter stands at a positive multiple of 10 at which
\* the check before it has not already triggered.
C26_QuickOptimizationCadence ==
    call # None =>
        (call.triggered <=>
            (/\ call.trade_counter > 0
             /\ call.trade_counter % 10 = 0
             /\ ~TriggeredBefore))

(***************************************************************************)
(* The market hours of the analysis job (specification SpecMarket).  A      *)
(* clock reading is a weekday (Monday 0 to Sunday 6) and an hour; both      *)
(* functions compare with full hours only.                                  *)
(***************************************************************************)
\* XAUUSDTradingSystem.is_market_open for the symbol of YF_SYMBOL
is_market_open(symbol, weekday, hour) ==
    IF symbol \in {"BTC-USD", "ETH-USD"} THEN TRUE
    ELSE IF symbol = "XAUUSD=X" /\ weekday = 5 THEN FALSE
    ELSE IF symbol = "XAUUSD=X" /\ weekday = 6 THEN hour >= 22
    ELSE TRUE

\* XAUUSDTradingConfig.is_market_open
config_is_market_open(weekday, hour) ==
    IF weekday = 4 /\ hour >= 21 THEN FALSE
    ELSE IF weekday = 5 THEN FALSE
    ELSE IF weekday = 6 /\ hour < 22 THEN FALSE
    ELSE TRUE

InitMarket ==
    /\ WeightsInit({None})
    /\ DmInit
    /\ CycleInit
    /\ AppInit
    /\ SvcInit
    /\ call \in [fn : {"analyze_and_signal"}, symbol : {"XAUUSD=X", "BTC-USD"},
                 weekday : 0..6, hour : 0..23, state : {"called"}]

\* analyze_and_signal, lines 143-149, at the clock reading of the call, and
\* what config.is_market_open says at the same reading
MarketCheck ==
    /\ call.state = "called"
    /\ call' = [call EXCEPT
                  !.state = "returned",
                  !.fn = IF is_market_open(call.symbol, call.weekday, call.hour)
                         THEN "analysis" ELSE "skipped"]
    /\ UNCHANGED <<weight_vars, dm_vars, cycle_vars, opt_weights, last_op, app_vars, svc_vars>>

NextMarket == MarketCheck

SpecMarket == InitMarket /\ [][NextMarket]_vars

\* Friday 22:00 to Sunday 22:00
WeekendClosure(weekday, hour) ==
    \/ weekday = 4 /\ hour >= 22
    \/ weekday = 5
    \/ weekday = 6 /\ hour < 22

\* C27 (weekend closure): for XAUUSD, the analysis is skipped at every clock
\* reading from Friday 22:00 to Sunday 22:00, and the market-open check of
\* the scheduler gives the answer of config.is_market_open at every weekday
\* and hour.
C27_WeekendClosure ==
    (call.state = "returned" /\ call.symbol = "XAUUSD=X") =>
        /\ WeekendClosure(call.weekday, call.hour) => call.fn = "skipped"
        /\ (call.fn = "analysis") = config_is_market_open(call.weekday, call.hour)

(***************************************************************************)
(* utils/news_monitor.py: the monitoring loop and its alerts                *)
(* (specification SpecNews).  The clock counts minutes from Friday 00:00.   *)
(* An event is the dict the parsers build, which has a time of day and no   *)
(* date; the model adds the day of the calendar it was read from (day),     *)
(* which the code does not keep.                                            *)
(***************************************************************************)
\* the last clock reading of a run: Saturday 23:05
MaxClock == 2825

DayOf(t) == t \div 1440

TimeOfDay(t) == t % 1440

\* the calendar of the site or of the fallback list for a day: Friday has
\* two red-folder events, a yellow one and one of another currency, the
\* weekend has none
Calendar(day) ==
    IF day = 0
    THEN <<[title |-> "Fed Chair Speaks", time |-> <<23, 55>>,
            currency |-> "USD", impact |-> "high", day |-> day],
           [title |-> "FOMC Member Speaks", time |-> "Tentative",
            currency |-> "USD", impact |-> "high", day |-> day],
           [title |-> "Preliminary UoM Consumer Sentiment", time |-> <<15, 0>>,
            currency |-> "USD", impact |-> "medium", day |-> day],
           [title |-> "ECB President Speaks", time |-> <<23, 55>>,
            currency |-> "EUR", impact |-> "high", day |-> day]>>
    ELSE <<>>

\* what _scrape_real_forexfactory returns: the calendar of the day, or
\* nothing when the scraping failed altogether
ScrapeOutcomes(day) == {Calendar(day), <<>>}

IsUSD(e) == e.currency = "USD"

\* _update_real_forexfactory_news at clock reading t
update_news(n, t, events) ==
    IF n.last_update # None /\ t - n.last_update.at < 10 THEN n
    ELSE IF events # <<>>
    THEN [n EXCEPT !.events_cache = SelectSeq(events, IsUSD),
                   !.last_update = [at |-> t]]
    ELSE n

\* datetime.strptime(today + ' ' + event['time'], '%Y-%m-%d %H:%M') minus
\* the current time, in minutes; None for a time that does not parse
time_until_event(event, t) ==
    IF event.time = "Tentative" THEN None
    ELSE [minutes |-> event.time[1] * 60 + event.time[2] - TimeOfDay(t)]

\* f"{event['title']}_{event['time']}_{current_time.date()}"
alert_key(event, t) == <<event.title, event.time, DayOf(t)>>

\* _check_real_news_alerts over the events of the cache; _send_real_news_alert
\* catches the error of the callback, so the key is added whether or not
\* the alert was delivered
RECURSIVE check_news_alerts(_, _, _, _)
check_news_alerts(n, t, events, delivered) ==
    IF events = <<>> THEN n
    ELSE LET event == Head(events)
             until == time_until_event(event, t)
             due == /\ until # None
                    /\ event.impact = "high" /\ event.currency = "USD"
                    /\ 55 <= until.minutes /\ until.minutes <= 65
                    /\ alert_key(event, t) \notin n.sent_alerts
             after == IF due
                      THEN [n EXCEPT !.alerts = Append(@, [event |-> event, at |-> t,
                                                          delivered |-> delivered]),
                                     !.sent_alerts = @ \cup {alert_key(event, t)}]
                      ELSE n
         IN check_news_alerts(after, t, Tail(events), delivered)

\* RealForexFactoryNewsMonitor.__init__ and start_monitoring on Friday at
\* 22:40 or two minutes later: the first update, then the loop task
InitNews ==
    /\ WeightsInit({None})
    /\ DmInit
    /\ CycleInit
    /\ AppInit
    /\ live_update_active = TRUE
    /\ threads = <<"run">>
    /\ call = None
    /\ \E t \in {1360, 1362}, events \in ScrapeOutcomes(0) :
         news = update_news([is_monitoring |-> TRUE, clock |-> t, events_cache |-> <<>>,
                             last_update |-> None, sent_alerts |-> {},
                             alerts |-> <<>>], t, events)

\* one iteration of _real_monitoring_loop: the update, the check of the
\* alerts and asyncio.sleep(300)
MonitoringIteration ==
    /\ news.is_monitoring
    /\ news.clock + 5 <= MaxClock
    /\ \E events \in ScrapeOutcomes(DayOf(news.clock)), delivered \in BOOLEAN :
         LET updated == update_news(news, news.clock, events)
             checked == check_news_alerts(updated, news.clock, updated.events_cache,
                                          delivered)
         IN news' = [checked EXCEPT !.clock = @ + 5]
    /\ UNCHANGED <<live_update_active, threads>>
    /\ UNCHANGED <<weight_vars, dm_vars, cycle_vars, aux_vars, app_vars>>

\* stop_monitoring
StopMonitoring ==
    /\ news.is_monitoring
    /\ news' = [news EXCEPT !.is_monitoring = FALSE]
    /\ UNCHANGED <<live_update_active, threads>>
    /\ UNCHANGED <<weight_vars, dm_vars, cycle_vars, aux_vars, app_vars>>

NextNews ==
    \/ MonitoringIteration
    \/ StopMonitoring

SpecNews == InitNews /\ [][NextNews]_vars

\* the event of the alert starts 55 to 65 minutes after the alert
StartsInAnHour(alert) ==
    /\ alert.event.day = DayOf(alert.at)
    /\ time_until_event(alert.event, alert.at) # None
    /\ 55 <= time_until_event(alert.event, alert.at).minutes
    /\ time_until_event(alert.event, alert.at).minutes <= 65

\* C28 (news alert de-duplication): every alert attempt is for a high-impact
\* USD event that starts 55 to 65 minutes after it, and no event (title,
\* time, date) has two alert attempts, delivered or failed.
C28_NewsAlertsOnce ==
    /\ \A i \in 1..Len(news.alerts) :
         /\ news.alerts[i].event.impact = "high"
         /\ news.alerts[i].event.currency = "USD"
         /\ StartsInAnHour(news.alerts[i])
    /\ \A i, j \in 1..Len(news.alerts) :
         news.alerts[i].event = news.alerts[j].event => i = j

(***************************************************************************)
(* The weight adjustment of optimize for one strategy of the optimizer's    *)
(* Weight Map (specification SpecAdjust): lines 67-110 for the performance  *)
(* that analyze_strategy_performance reports for it                         *)
(***************************************************************************)
InitAdjust ==
    /\ WeightsInit({None, HalvesFile})
    /\ DmInit
    /\ CycleInit
    /\ AppInit
    /\ SvcInit
    /\ call \in [fn : {"adjust"}, strategy : DOMAIN STRATEGY_WEIGHTS, band : Bands,
                 bonus : BOOLEAN, state : {"called"}]
    /\ call.strategy \in DOMAIN heap[opt_weights]

\* self.weights[strategy] before and after the body of the loop
AdjustStrategy ==
    /\ call.state = "called"
    /\ call' = [fn |-> call.fn, strategy |-> call.strategy, band |-> call.band,
                bonus |-> call.bonus, state |-> "returned",
                before |-> Deref(opt_weights)[call.strategy],
                after |-> AdjustWeight(Deref(opt_weights)[call.strategy],
                                       call.band, call.bonus)]
    /\ UNCHANGED <<weight_vars, dm_vars, cycle_vars, opt_weights, last_op, app_vars, svc_vars>>

NextAdjust == AdjustStrategy

SpecAdjust == InitAdjust /\ [][NextAdjust]_vars

\* C29 (adjustment in the direction of performance): before normalization,
\* the weight of a strategy with at least 5 trades is not lowered when its
\* win rate is 60 or more, and not raised when its win rate is below 60 and
\* there is no profit bonus; with fewer than 5 trades and no profit bonus
\* the weight stays as it is.
C29_AdjustsWithPerformance ==
    call.state = "returned" =>
        /\ call.band \in {"super", "good", "average"} => RGe(call.after, call.before)
        /\ (call.band \in {"poor", "bad"} /\ ~call.bonus) => RLe(call.after, call.before)
        /\ (call.band = "few" /\ ~call.bonus) => call.after = call.before

\* a run of optimize or of quick_optimize by an optimizer that holds the
\* configured defaults (its load_weights fell back to them)
LearnsOnDefaults ==
    /\ opt_weights = config_weights
    /\ last_op'.count = last_op.count + 1
    /\ last_op'.op \in {"optimize", "quick_optimize"}

\* C30 (configured defaults not touched by learning): when the optimizer fell
\* back to the configured defaults, a run of optimize() or quick_optimize()
\* leaves the contents of config.STRATEGY_WEIGHTS as they were, and with them
\* the Weight Map of a signal generator that fell back to the defaults too.
C30_DefaultsUntouched ==
    [][LearnsOnDefaults =>
          /\ config_weights' = config_weights
          /\ heap'[config_weights] = heap[config_weights]
          /\ sg_weights = config_weights =>
                 /\ sg_weights' = sg_weights
                 /\ heap'[sg_weights] = heap[sg_weights]]_vars

====
